---------------------------- MODULE Spec2Model ----------------------------
(***************************************************************************)
(* SCIM 2.0 provisioning layer of open-webui: the resource mapper          *)
(* (utils/scim_utils.py), the Users router (routers/scim_users.py) and the *)
(* Groups router (routers/scim_groups.py), over the Users/Auths/Groups     *)
(* store of models/users.py, models/auths.py and models/groups.py; the     *)
(* bearer-token dependency of both routers (utils/scim_auth.py) and the    *)
(* Schemas router with its process-wide cache (routers/scim_schemas.py).   *)
(*                                                                         *)
(* Text is a sequence of one-character strings, so that str.split and the  *)
(* name join are computed rather than assumed.  Python's None is the       *)
(* one-element sequence None, which no text equals.  Ids are one-digit     *)
(* texts; the falsy id (absent or "") is NoId.  An Optional[Model]         *)
(* returned by the store is a sequence of zero or one records.             *)
(***************************************************************************)
EXTENDS Integers, Sequences, FiniteSets, TLC

VARIABLES
    users,      \* the user table, in the order Users.get_users() lists it
    groups,     \* the group table, in the order Groups.get_groups() lists it
    resp,       \* the response of the last request, with the store calls it issued
    mu,         \* mapper round trip: the UserModel handed to user_to_scim_user
    mwire,      \* mapper round trip: the SCIMUser it produced (zero or one)
    mdb,        \* mapper round trip: scim_user_to_db_dict of that SCIMUser (zero or one)
    config,     \* ENABLE_SCIM.value and SCIM_TOKEN.value
    cache,      \* _USER_SCIM_SCHEMA_CACHE and _GROUP_SCIM_SCHEMA_CACHE (zero or one schema each)
    computed,   \* per resource type, the calls of pydantic_schema_to_scim_schema so far
    inflight    \* the requests being handled concurrently: position and locals of each

vars == <<users, groups, resp, mu, mwire, mdb, config, cache, computed, inflight>>

\* the configuration and the schema cache, which no Users or Groups handler touches
aux == <<config, cache, computed, inflight>>

----------------------------------------------------------------------------
(* Bounds and domains *)

MaxOps == 2
MaxMembers == 2
MaxNameLen == 3

None == <<"None">>
NoId == <<>>
NoTime == -1

UserIds == {<<"1">>, <<"2">>}
GroupIds == {<<"1">>, <<"2">>}
\* member ids a request may name: the id of a known user and an id no user has
MemberIds == {<<"1">>, <<"9">>}
Roles == {"pending", "user", "admin"}
Emails == {<<"a">>, <<"b">>, <<"c">>}
Chars == {"A", "B", " "}
BaseUrls == {"https://idp/scim/v2"}

RECURSIVE TextsUpTo(_)
TextsUpTo(n) ==
    IF n = 0 THEN {<<>>}
    ELSE LET shorter == TextsUpTo(n - 1)
         IN  shorter \cup {Append(t, c) : t \in {s \in shorter : Len(s) = n - 1}, c \in Chars}

Truthy(t) == t # None /\ t # <<>>

----------------------------------------------------------------------------
(* Resource mapper: utils/scim_utils.py *)

\* str.split(" ", 1): the text before the first space, and the text after it
RECURSIVE FirstSpace(_, _)
FirstSpace(t, i) ==
    IF i > Len(t) THEN 0
    ELSE IF t[i] = " " THEN i
    ELSE FirstSpace(t, i + 1)

SplitFirstSpace(t) ==
    LET k == FirstSpace(t, 1)
    IN  IF k = 0 THEN <<t>>
        ELSE <<SubSeq(t, 1, k - 1), SubSeq(t, k + 1, Len(t))>>

\* datetime.fromtimestamp(ts, tz=utc)
FromTimestamp(ts) == ts

Location(base_url, kind, id) == <<base_url, kind, id>>

MetaDates(created_at, updated_at) ==
    LET created_dt == IF created_at # NoTime THEN FromTimestamp(created_at) ELSE NoTime
        \* the "elif created_dt" fallback sits inside "if updated_at is not None"
        last_modified_dt == IF updated_at # NoTime THEN FromTimestamp(updated_at) ELSE NoTime
    IN  [created |-> created_dt, lastModified |-> last_modified_dt]

ActiveOf_OnlyUser(role) == role = "user"

\* active=(user.role != "pending")
ActiveOf(role) == role # "pending"

user_to_scim_user(user, base_url) ==
    LET name_parts == SplitFirstSpace(user.name)
        given_name == IF Truthy(user.name) THEN name_parts[1] ELSE None
        family_name == IF Truthy(user.name) /\ Len(name_parts) > 1 THEN name_parts[2] ELSE None
        dates == MetaDates(user.created_at, user.updated_at)
    IN  [ id |-> user.id,
          userName |-> user.email,
          name |-> << [formatted |-> user.name, givenName |-> given_name, familyName |-> family_name] >>,
          displayName |-> user.name,
          active |-> ActiveOf(user.role),
          emails |-> << [value |-> user.email, primary |-> TRUE, type |-> "work"] >>,
          meta |-> [ resourceType |-> "User",
                     created |-> dates.created,
                     lastModified |-> dates.lastModified,
                     location |-> Location(base_url, "Users", user.id) ],
          externalId |-> None ]

\* the name the payload resolves to (formatted > displayName > given+family > given > userName)
ResolveName(scim_user) ==
    LET has == Len(scim_user.name) > 0
        nm == scim_user.name[1]
    IN  IF has /\ Truthy(nm.formatted) THEN nm.formatted
        ELSE IF Truthy(scim_user.displayName) THEN scim_user.displayName
        ELSE IF has /\ Truthy(nm.givenName) /\ Truthy(nm.familyName)
             THEN nm.givenName \o <<" ">> \o nm.familyName
        ELSE IF has /\ Truthy(nm.givenName) THEN nm.givenName
        ELSE scim_user.userName

RoleOfActive_AlwaysUser(active) == "user"

\* "role": "user" if scim_user.active else "pending"
RoleOfActive(active) == IF active THEN "user" ELSE "pending"

\* the dict without its optional "id"/"external_id" keys, which every caller drops or overwrites
scim_user_to_db_dict(scim_user) ==
    [ email |-> scim_user.userName,
      name |-> ResolveName(scim_user),
      role |-> RoleOfActive(scim_user.active) ]

----------------------------------------------------------------------------
(* The store behind the routers: models/users.py and models/auths.py.      *)
(* A row is found by its id; the store itself compares no emails.  Any      *)
(* mutating call may fail (ok = FALSE) and then changes nothing.            *)

Get(dict, key, default) == IF key \in DOMAIN dict THEN dict[key] ELSE default

EmptyDict == <<>>

Users_get_user_by_id(us, id) == SelectSeq(us, LAMBDA u : u.id = id)

Users_get_user_by_email(us, email) ==
    LET hits == SelectSeq(us, LAMBDA u : u.email = email)
    IN  IF hits = <<>> THEN <<>> ELSE <<hits[1]>>

Users_get_users(us) == us

Users_get_users_by_role(us, role) == SelectSeq(us, LAMBDA u : u.role = role)

Users_get_users_by_user_ids(us, ids) ==
    SelectSeq(us, LAMBDA u : \E i \in DOMAIN ids : ids[i] = u.id)

Auths_insert_new_auth(us, id, email, name, role, ok) ==
    LET refused == \/ ~ok
                   \/ Users_get_user_by_id(us, id) # <<>>
        row == [id |-> id, email |-> email, name |-> name, role |-> role,
                created_at |-> 1, updated_at |-> 1]
    IN  IF refused THEN [users |-> us, ret |-> <<>>]
        ELSE [users |-> Append(us, row), ret |-> <<row>>]

Users_update_user_by_id(us, id, fields, ok) ==
    LET refused == \/ ~ok
                   \/ Users_get_user_by_id(us, id) = <<>>
        Upd(u) == [id |-> u.id,
                   email |-> Get(fields, "email", u.email),
                   name |-> Get(fields, "name", u.name),
                   role |-> Get(fields, "role", u.role),
                   created_at |-> u.created_at, updated_at |-> u.updated_at]
        after == [i \in DOMAIN us |-> IF us[i].id = id THEN Upd(us[i]) ELSE us[i]]
    IN  IF refused THEN [users |-> us, ret |-> <<>>]
        ELSE [users |-> after, ret |-> Users_get_user_by_id(after, id)]

Auths_delete_auth_by_id(us, id, ok) ==
    IF ~ok \/ Users_get_user_by_id(us, id) = <<>>
    THEN [users |-> us, ret |-> FALSE]
    ELSE [users |-> SelectSeq(us, LAMBDA u : u.id # id), ret |-> TRUE]

----------------------------------------------------------------------------
(* Responses: utils/scim_exceptions.py *)

NoList == <<>>

\* asked: the (op, path) of the PATCH request that was answered, when it carried one operation
Response(op, id, status, scimType, body, list, writes) ==
    [op |-> op, id |-> id, status |-> status, scimType |-> scimType,
     body |-> body, list |-> list, writes |-> writes, asked |-> <<>>]

Asked(Operations) ==
    IF Len(Operations) = 1 THEN <<Operations[1].op, Operations[1].path>> ELSE <<>>

SCIMBadRequestError(op, id, writes) == Response(op, id, 400, "invalidValue", <<>>, NoList, writes)
SCIMNotFoundError(op, id, writes) == Response(op, id, 404, "notFound", <<>>, NoList, writes)
SCIMConflictError(op, id, writes) == Response(op, id, 409, "uniqueness", <<>>, NoList, writes)
SCIMInternalServerError(op, id, writes) == Response(op, id, 500, "internalServerError", <<>>, NoList, writes)
SCIMNotImplementedError(op, id, writes) == Response(op, id, 501, "notImplemented", <<>>, NoList, writes)
\* an exception that is no SCIM error (a NameError) leaves the handler: a bare 500
UnhandledError(op, id, writes) == Response(op, id, 500, "", <<>>, NoList, writes)

Call(name, id, fields) == [call |-> name, id |-> id, fields |-> fields]

----------------------------------------------------------------------------
(* Users router: routers/scim_users.py *)

\* str.lower() on the letters the paths and filters of the model use
LowerChar(c) ==
    CASE c = "A" -> "a" [] c = "B" -> "b" [] c = "C" -> "c" [] c = "D" -> "d"
      [] c = "E" -> "e" [] c = "F" -> "f" [] c = "G" -> "g" [] c = "H" -> "h"
      [] c = "I" -> "i" [] c = "J" -> "j" [] c = "K" -> "k" [] c = "L" -> "l"
      [] c = "M" -> "m" [] c = "N" -> "n" [] c = "O" -> "o" [] c = "P" -> "p"
      [] c = "Q" -> "q" [] c = "R" -> "r" [] c = "S" -> "s" [] c = "T" -> "t"
      [] c = "U" -> "u" [] c = "V" -> "v" [] c = "W" -> "w" [] c = "X" -> "x"
      [] c = "Y" -> "y" [] c = "Z" -> "z"
      [] OTHER -> c

Lower(t) == [i \in DOMAIN t |-> LowerChar(t[i])]

T_active == <<"a", "c", "t", "i", "v", "e">>
T_Active == <<"A", "c", "t", "i", "v", "e">>
T_username == <<"u", "s", "e", "r", "n", "a", "m", "e">>
T_userName == <<"u", "s", "e", "r", "N", "a", "m", "e">>
T_displayname == <<"d", "i", "s", "p", "l", "a", "y", "n", "a", "m", "e">>
T_displayName == <<"d", "i", "s", "p", "l", "a", "y", "N", "a", "m", "e">>
T_members == <<"m", "e", "m", "b", "e", "r", "s">>

BoolValue(b) == [t |-> "bool", v |-> b]
StrValue(s) == [t |-> "str", v |-> s]
IntValue(n) == [t |-> "int", v |-> n]
NullValue == [t |-> "null", v |-> 0]
ListValue(l) == [t |-> "list", v |-> l]

PatchOp(op, path, value) == [op |-> op, path |-> path, value |-> value]

EmailTakenByOther_Never(us, email, user_id) == FALSE

\* "existing_user and existing_user.id != user_id" after Users.get_user_by_email
EmailTakenByOther(us, email, user_id) ==
    LET existing_user == Users_get_user_by_email(us, email)
    IN  existing_user # <<>> /\ existing_user[1].id # user_id

EmailExists_Never(us, email) == FALSE

\* "if existing_user" after Users.get_user_by_email, before a creation
EmailExists(us, email) == Users_get_user_by_email(us, email) # <<>>

\* db_updates["role"] = "user" if op.value else "pending"
PatchedRole(active) == IF active THEN "user" ELSE "pending"

Raised_Swallowed(error, db_updates) == [error |-> "", db_updates |-> db_updates]

\* "raise" in the loop of patch_user: the loop ends with the error
Raised(error, db_updates) == [error |-> error, db_updates |-> db_updates]

\* the loop over patch_request_payload.Operations; an exception ends it
RECURSIVE patch_user_loop(_, _, _, _, _)
patch_user_loop(us, user_model, Operations, i, db_updates) ==
    IF i > Len(Operations) THEN [error |-> "", db_updates |-> db_updates]
    ELSE
      LET op == Operations[i]
          user_id == user_model.id
      IN  IF op.op = "replace" THEN
            IF Truthy(op.path) /\ Lower(op.path) = T_active THEN
              IF op.value.t = "bool"
              THEN patch_user_loop(us, user_model, Operations, i + 1,
                                   [role |-> PatchedRole(op.value.v)] @@ db_updates)
              ELSE Raised("BadRequest", db_updates)
            ELSE IF Truthy(op.path) /\ Lower(op.path) = T_username THEN
              IF op.value.t = "str" THEN
                IF op.value.v # user_model.email THEN
                  IF EmailTakenByOther(us, op.value.v, user_id)
                  THEN Raised("Conflict", db_updates)
                  ELSE patch_user_loop(us, user_model, Operations, i + 1,
                                       [email |-> op.value.v] @@ db_updates)
                ELSE patch_user_loop(us, user_model, Operations, i + 1, db_updates)
              ELSE Raised("BadRequest", db_updates)
            ELSE Raised("NotImplemented", db_updates)
          ELSE Raised("NotImplemented", db_updates)

ErrorResponse(error, op, id, writes) ==
    CASE error = "BadRequest" -> SCIMBadRequestError(op, id, writes)
      [] error = "Conflict" -> SCIMConflictError(op, id, writes)
      [] error = "NotFound" -> SCIMNotFoundError(op, id, writes)
      [] error = "NotImplemented" -> SCIMNotImplementedError(op, id, writes)
      [] OTHER -> SCIMInternalServerError(op, id, writes)

Result(us, r) == [users |-> us, resp |-> r]

patch_user(us, user_id, Operations, ok, base_url) ==
    LET user_model == Users_get_user_by_id(us, user_id)
    IN  IF user_model = <<>> THEN Result(us, SCIMNotFoundError("patch_user", user_id, <<>>))
        ELSE
          LET loop == patch_user_loop(us, user_model[1], Operations, 1, EmptyDict)
          IN  IF loop.error # "" THEN Result(us, ErrorResponse(loop.error, "patch_user", user_id, <<>>))
              ELSE IF DOMAIN loop.db_updates = {}
              THEN Result(us, Response("patch_user", user_id, 200, "",
                                       <<user_to_scim_user(user_model[1], base_url)>>, NoList, <<>>))
              ELSE
                LET upd == Users_update_user_by_id(us, user_id, loop.db_updates, ok)
                    writes == <<Call("update_user_by_id", user_id, loop.db_updates)>>
                    final_user_model == Users_get_user_by_id(upd.users, user_id)
                IN  IF upd.ret = <<>>
                    THEN Result(upd.users, SCIMInternalServerError("patch_user", user_id, writes))
                    ELSE Result(upd.users, Response("patch_user", user_id, 200, "",
                                   <<user_to_scim_user(final_user_model[1], base_url)>>, NoList, writes))

create_user(us, scim_user_payload, fresh_id, ok, base_url) ==
    IF ~Truthy(scim_user_payload.userName)
    THEN Result(us, SCIMBadRequestError("create_user", NoId, <<>>))
    ELSE IF EmailExists(us, scim_user_payload.userName)
    THEN Result(us, SCIMConflictError("create_user", NoId, <<>>))
    ELSE
      LET user_data_for_db == scim_user_to_db_dict(scim_user_payload)
          user_id == IF Truthy(scim_user_payload.id) THEN scim_user_payload.id ELSE fresh_id
          ins == Auths_insert_new_auth(us, user_id, user_data_for_db.email,
                                       user_data_for_db.name, user_data_for_db.role, ok)
          writes == <<Call("insert_new_auth", user_id, user_data_for_db)>>
          new_user_model == Users_get_user_by_id(ins.users, user_id)
      IN  IF ins.ret = <<>>
          THEN Result(ins.users, SCIMInternalServerError("create_user", user_id, writes))
          ELSE Result(ins.users, Response("create_user", user_id, 201, "",
                         <<user_to_scim_user(new_user_model[1], base_url)>>, NoList, writes))

get_user_by_id(us, user_id, base_url) ==
    LET user_model == Users_get_user_by_id(us, user_id)
    IN  IF user_model = <<>> THEN Result(us, SCIMNotFoundError("get_user_by_id", user_id, <<>>))
        ELSE Result(us, Response("get_user_by_id", user_id, 200, "",
                                 <<user_to_scim_user(user_model[1], base_url)>>, NoList, <<>>))

\* GET /Users/{id} with its query parameters: projection is refused first
get_user_by_id_projected(us, user_id, attributes, excludedAttributes, base_url) ==
    IF Truthy(attributes) \/ Truthy(excludedAttributes)
    THEN Result(us, SCIMNotImplementedError("get_user_by_id", user_id, <<>>))
    ELSE get_user_by_id(us, user_id, base_url)

replace_user(us, user_id, scim_user_payload, ok, base_url) ==
    LET user_model == Users_get_user_by_id(us, user_id)
    IN  IF Truthy(scim_user_payload.id) /\ scim_user_payload.id # user_id
        THEN Result(us, SCIMBadRequestError("replace_user", user_id, <<>>))
        ELSE IF user_model = <<>>
        THEN Result(us, SCIMNotFoundError("replace_user", user_id, <<>>))
        ELSE
          LET conflict == /\ scim_user_payload.userName # user_model[1].email
                          /\ EmailTakenByOther(us, scim_user_payload.userName, user_id)
              update_data_db == scim_user_to_db_dict(scim_user_payload)
              upd == Users_update_user_by_id(us, user_id, update_data_db, ok)
              writes == <<Call("update_user_by_id", user_id, update_data_db)>>
              \* "if not updated_user": re-fetch, and answer with what the store holds
              updated_user == IF upd.ret # <<>> THEN upd.ret
                              ELSE Users_get_user_by_id(upd.users, user_id)
          IN  IF conflict THEN Result(us, SCIMConflictError("replace_user", user_id, <<>>))
              ELSE IF updated_user = <<>>
              THEN Result(upd.users, SCIMInternalServerError("replace_user", user_id, writes))
              ELSE Result(upd.users, Response("replace_user", user_id, 200, "",
                             <<user_to_scim_user(updated_user[1], base_url)>>, NoList, writes))

delete_user(us, user_id, ok) ==
    LET user_model == Users_get_user_by_id(us, user_id)
        del == Auths_delete_auth_by_id(us, user_id, ok)
        writes == <<Call("delete_auth_by_id", user_id, EmptyDict)>>
    IN  IF user_model = <<>> THEN Result(us, SCIMNotFoundError("delete_user", user_id, <<>>))
        ELSE IF ~del.ret
        THEN Result(del.users, SCIMInternalServerError("delete_user", user_id, writes))
        ELSE Result(del.users, Response("delete_user", user_id, 204, "", <<>>, NoList, writes))


\* str.split(sep): the pieces between the occurrences of the one-character separator
RECURSIVE SplitFrom(_, _, _, _)
SplitFrom(t, sep, i, piece) ==
    IF i > Len(t) THEN <<piece>>
    ELSE IF t[i] = sep THEN <<piece>> \o SplitFrom(t, sep, i + 1, <<>>)
    ELSE SplitFrom(t, sep, i + 1, Append(piece, t[i]))

Split(t, sep) == SplitFrom(t, sep, 1, <<>>)

\* str.strip(ch): drop the leading and trailing occurrences of ch
RECURSIVE LStrip(_, _)
LStrip(t, ch) == IF t # <<>> /\ Head(t) = ch THEN LStrip(Tail(t), ch) ELSE t

RECURSIVE RStrip(_, _)
RStrip(t, ch) ==
    IF t # <<>> /\ t[Len(t)] = ch THEN RStrip(SubSeq(t, 1, Len(t) - 1), ch) ELSE t

Strip(t, ch) == RStrip(LStrip(t, ch), ch)

Min(a, b) == IF a < b THEN a ELSE b

\* list[start:end] for 0 <= start <= end
PySlice(list, start, end) == SubSeq(list, start + 1, Min(end, Len(list)))

T_eq == <<"e", "q">>

ParseFilter_AnyAttribute(filter, attribute) ==
    IF ~Truthy(filter) THEN [error |-> "", value |-> None]
    ELSE LET parts == Split(filter, " ")
         IN  IF Len(parts) = 3 /\ Lower(parts[2]) = T_eq
             THEN [error |-> "", value |-> Strip(parts[3], "\"")]
             ELSE [error |-> "NotImplemented", value |-> None]

\* the filter of a list request: [error, value], value None when no filter is given
ParseFilter(filter, attribute) ==
    IF ~Truthy(filter) THEN [error |-> "", value |-> None]
    ELSE LET parts == Split(filter, " ")
         IN  IF Len(parts) = 3 /\ Lower(parts[1]) = attribute /\ Lower(parts[2]) = T_eq
             THEN [error |-> "", value |-> Strip(parts[3], "\"")]
             ELSE [error |-> "NotImplemented", value |-> None]

ListPage(total, startIndex, resources) ==
    [totalResults |-> total, startIndex |-> startIndex, itemsPerPage |-> Len(resources)]

\* scim_users.py imports SCIMUser, SCIMListResponse, SCIMPatchRequest and
\* USER_SCHEMA_URN from models.scim_schemas, and not LIST_RESPONSE_URN
UsersRouterImportsListResponseUrn == FALSE

\* query is [startIndex, count, filter, sortBy, sortOrder, attributes, excludedAttributes]
get_users(us, query, base_url) ==
    LET parsed == ParseFilter(query.filter, T_username)
        filter_email == parsed.value
        all_db_users == Users_get_users(us)
        user_models == IF Truthy(filter_email)
                       THEN SelectSeq(all_db_users, LAMBDA u : u.email = filter_email)
                       ELSE all_db_users
        total_results == Len(user_models)
        start_index_0_based == query.startIndex - 1
        end_index_0_based == start_index_0_based + query.count
        paginated_user_models == PySlice(user_models, start_index_0_based, end_index_0_based)
        scim_user_resources == [i \in DOMAIN paginated_user_models |->
                                   user_to_scim_user(paginated_user_models[i], base_url)]
    IN  IF Truthy(query.sortBy) \/ Truthy(query.sortOrder)
        THEN Result(us, SCIMNotImplementedError("get_users", NoId, <<>>))
        ELSE IF Truthy(query.attributes) \/ Truthy(query.excludedAttributes)
        THEN Result(us, SCIMNotImplementedError("get_users", NoId, <<>>))
        ELSE IF parsed.error # ""
        THEN Result(us, SCIMNotImplementedError("get_users", NoId, <<>>))
        \* building the SCIMListResponse evaluates the name LIST_RESPONSE_URN
        ELSE IF ~UsersRouterImportsListResponseUrn
        THEN Result(us, UnhandledError("get_users", NoId, <<>>))
        ELSE Result(us, Response("get_users", NoId, 200, "", scim_user_resources,
                                 <<ListPage(total_results, query.startIndex, scim_user_resources)>>, <<>>))

----------------------------------------------------------------------------
(* Group mapper: utils/scim_utils.py *)

\* member_map.get(user_id): the last of the supplied users with that id
MemberMapGet(members_users, user_id) ==
    LET found == SelectSeq(members_users, LAMBDA u : u.id = user_id)
    IN  IF found # <<>> THEN <<found[Len(found)]>> ELSE <<>>

ScimMemberOf(members_users, base_url, user_id) ==
    LET user_model == MemberMapGet(members_users, user_id)
    IN  [ value |-> user_id,
          display |-> IF user_model # <<>> THEN user_model[1].email ELSE user_id,
          ref |-> Location(base_url, "Users", user_id),
          type |-> "User" ]

ScimMembers_KnownOnly(user_ids, members_users, base_url) ==
    LET known == SelectSeq(user_ids, LAMBDA id : MemberMapGet(members_users, id) # <<>>)
    IN  [i \in DOMAIN known |-> ScimMemberOf(members_users, base_url, known[i])]

\* for user_id in group.user_ids: scim_members.append(...)
ScimMembers(user_ids, members_users, base_url) ==
    [i \in DOMAIN user_ids |-> ScimMemberOf(members_users, base_url, user_ids[i])]

group_to_scim_group(group, members_users, base_url) ==
    LET scim_members == ScimMembers(group.user_ids, members_users, base_url)
        dates == MetaDates(group.created_at, group.updated_at)
    IN  [ id |-> group.id,
          displayName |-> group.name,
          members |-> scim_members,
          meta |-> [ resourceType |-> "Group",
                     created |-> dates.created,
                     lastModified |-> dates.lastModified,
                     location |-> Location(base_url, "Groups", group.id) ],
          externalId |-> None ]

\* None where a list of ids is expected
NoneList == <<None>>

\* payload members: NoneList, or the list of member ids (each a SCIMGroupMember.value)
scim_group_to_db_dict(scim_group) ==
    [ name |-> scim_group.displayName,
      user_ids |-> IF scim_group.members # NoneList /\ scim_group.members # <<>>
                   THEN scim_group.members ELSE <<>>,
      description |-> <<>> ]

----------------------------------------------------------------------------
(* The group store: models/groups.py.  It looks groups up by id only and    *)
(* does not compare names.                                                  *)

Groups_get_group_by_id(gs, id) == SelectSeq(gs, LAMBDA g : g.id = id)

Groups_get_groups(gs) == gs

Groups_insert_new_group(gs, new_id, user_id, form_data, ok) ==
    LET row == [id |-> new_id, name |-> form_data.name, description |-> form_data.description,
                user_id |-> user_id, user_ids |-> <<>>, created_at |-> 1, updated_at |-> 1]
    IN  IF ~ok \/ Groups_get_group_by_id(gs, new_id) # <<>>
        THEN [groups |-> gs, ret |-> <<>>]
        ELSE [groups |-> Append(gs, row), ret |-> <<row>>]

Groups_update_group_by_id(gs, id, fields, ok) ==
    LET Upd(g) == [id |-> g.id,
                   name |-> Get(fields, "name", g.name),
                   description |-> Get(fields, "description", g.description),
                   user_id |-> g.user_id,
                   user_ids |-> Get(fields, "user_ids", g.user_ids),
                   created_at |-> g.created_at, updated_at |-> g.updated_at]
        after == [i \in DOMAIN gs |-> IF gs[i].id = id THEN Upd(gs[i]) ELSE gs[i]]
    IN  IF ~ok \/ Groups_get_group_by_id(gs, id) = <<>>
        THEN [groups |-> gs, ret |-> <<>>]
        ELSE [groups |-> after, ret |-> Groups_get_group_by_id(after, id)]

Groups_delete_group_by_id(gs, id, ok) ==
    IF ~ok \/ Groups_get_group_by_id(gs, id) = <<>>
    THEN [groups |-> gs, ret |-> FALSE]
    ELSE [groups |-> SelectSeq(gs, LAMBDA g : g.id # id), ret |-> TRUE]

----------------------------------------------------------------------------
(* Groups router: routers/scim_groups.py *)

GResult(gs, r) == [groups |-> gs, resp |-> r]

Range(q) == {q[i] : i \in DOMAIN q}

\* "if x" on a PATCH value
PyTruthy(value) ==
    CASE value.t = "bool" -> value.v
      [] value.t = "str" -> value.v # <<>>
      [] value.t = "int" -> value.v # 0
      [] value.t = "list" -> value.v # <<>>
      [] OTHER -> FALSE

T_None == <<"N", "o", "n", "e">>
T_True == <<"T", "r", "u", "e">>
T_False == <<"F", "a", "l", "s", "e">>
T_list == <<"[", "]">>
DigitText == <<"1", "2", "3", "4", "5", "6", "7", "8", "9">>

\* str(x) on a PATCH value
PyStr(value) ==
    CASE value.t = "str" -> value.v
      [] value.t = "bool" -> IF value.v THEN T_True ELSE T_False
      [] value.t = "int" -> IF value.v = 0 THEN <<"0">> ELSE <<DigitText[value.v]>>
      [] value.t = "null" -> T_None
      [] OTHER -> T_list

\* a member object of a value list: a dict with a "value" key, a dict without, or no dict
MemberObj(id) == [dict |-> TRUE, has_value |-> TRUE, value |-> id]
MemberNoValue == [dict |-> TRUE, has_value |-> FALSE, value |-> <<>>]
MemberNoDict == [dict |-> FALSE, has_value |-> FALSE, value |-> <<>>]

ValidMember(member_obj) == member_obj.dict /\ member_obj.has_value

MemberValues(list) == {list[i].value : i \in DOMAIN list}

\* "for member_obj in op.value": [error, ids] of iterating a truthy value
IterateMembers(value) ==
    CASE value.t = "list" ->
           IF \A i \in DOMAIN value.v : ValidMember(value.v[i])
           THEN [error |-> "", ids |-> MemberValues(value.v)]
           ELSE [error |-> "BadRequest", ids |-> {}]
      \* the characters of a string are no dicts
      [] value.t = "str" -> [error |-> "BadRequest", ids |-> {}]
      \* a number or a boolean is not iterable
      [] OTHER -> [error |-> "TypeError", ids |-> {}]

StartsWith(t, prefix) ==
    Len(t) >= Len(prefix) /\ SubSeq(t, 1, Len(prefix)) = prefix

T_members_value_eq == <<"m", "e", "m", "b", "e", "r", "s", "[", "v", "a", "l", "u", "e", " ", "e", "q">>

NameTakenByOther_Never(gs, name, group_id) == FALSE

\* any(g.name == name and g.id != group_id for g in all_groups)
NameTakenByOther(gs, name, group_id) ==
    LET all_groups == Groups_get_groups(gs)
    IN  \E k \in DOMAIN all_groups : all_groups[k].name = name /\ all_groups[k].id # group_id

\* any(g.name == name for g in all_groups)
NameExists(gs, name) ==
    LET all_groups == Groups_get_groups(gs)
    IN  \E k \in DOMAIN all_groups : all_groups[k].name = name

ReplaceMembers_NoClear(current_user_ids, ids) == current_user_ids \cup ids

\* current_user_ids.clear(), then add() of every member value
ReplaceMembers(current_user_ids, ids) == ids

AddMembers_Overwrite(current_user_ids, ids) == ids

\* current_user_ids.add() of every member value
AddMembers(current_user_ids, ids) == current_user_ids \cup ids

RemoveMember_All(current_user_ids, id) == {}

\* current_user_ids.remove(user_id_to_remove)
RemoveMember(current_user_ids, id) == current_user_ids \ {id}

Acc(error, db_updates, current_user_ids, members_changed) ==
    [error |-> error, db_updates |-> db_updates,
     current_user_ids |-> current_user_ids, members_changed |-> members_changed]

Raise_Swallowed(error, acc) == acc

Raise(error, acc) == Acc(error, acc.db_updates, acc.current_user_ids, acc.members_changed)

\* the loop over patch_request_payload.Operations; an exception ends it
RECURSIVE patch_group_loop(_, _, _, _, _)
patch_group_loop(gs, group_model, Operations, i, acc) ==
    IF i > Len(Operations) THEN acc
    ELSE
      LET op == Operations[i]
          group_id == group_model.id
          Continue(next) == patch_group_loop(gs, group_model, Operations, i + 1, next)
      IN  IF op.op = "replace" THEN
            IF Truthy(op.path) /\ Lower(op.path) = T_displayname THEN
              LET new_name == PyStr(op.value)
              IN  IF new_name # group_model.name THEN
                    IF NameTakenByOther(gs, new_name, group_id)
                    THEN Raise("Conflict", acc)
                    ELSE Continue(Acc("", [name |-> new_name] @@ acc.db_updates,
                                      acc.current_user_ids, acc.members_changed))
                  ELSE Continue(acc)
            ELSE IF Truthy(op.path) /\ Lower(op.path) = T_members THEN
              IF PyTruthy(op.value) THEN
                LET it == IterateMembers(op.value)
                IN  IF it.error # "" THEN Raise(it.error, acc)
                    ELSE Continue(Acc("", acc.db_updates,
                                      ReplaceMembers(acc.current_user_ids, it.ids), TRUE))
              ELSE Continue(Acc("", acc.db_updates, ReplaceMembers(acc.current_user_ids, {}), TRUE))
            ELSE Raise("NotImplemented", acc)
          ELSE IF op.op = "add" THEN
            IF Truthy(op.path) /\ Lower(op.path) = T_members THEN
              IF ~PyTruthy(op.value) \/ op.value.t # "list" THEN Raise("BadRequest", acc)
              ELSE LET it == IterateMembers(op.value)
                   IN  IF it.error # "" THEN Raise(it.error, acc)
                       ELSE Continue(Acc("", acc.db_updates,
                                         AddMembers(acc.current_user_ids, it.ids), TRUE))
            ELSE Raise("NotImplemented", acc)
          ELSE IF op.op = "remove" THEN
            IF Truthy(op.path) /\ StartsWith(op.path, T_members_value_eq) THEN
              LET pieces == Split(op.path, "\"")
              IN  IF Len(pieces) < 2 THEN Raise("BadRequest", acc)
                  ELSE IF pieces[2] \in acc.current_user_ids
                  THEN Continue(Acc("", acc.db_updates,
                                    RemoveMember(acc.current_user_ids, pieces[2]), TRUE))
                  ELSE Continue(acc)
            ELSE Raise("NotImplemented", acc)
          ELSE Raise("NotImplemented", acc)

\* list(a_set): the elements in the iteration order the set happens to have
ListOfSet(set, order) == SelectSeq(order, LAMBDA x : x \in set)

GroupError(error, op, id, writes) ==
    IF error = "TypeError" THEN UnhandledError(op, id, writes)
    ELSE ErrorResponse(error, op, id, writes)

GroupBody(us, group, base_url) ==
    <<group_to_scim_group(group, Users_get_users_by_user_ids(us, group.user_ids), base_url)>>

patch_group(gs, us, group_id, Operations, order, ok, base_url) ==
    LET group_model == Groups_get_group_by_id(gs, group_id)
    IN  IF group_model = <<>> THEN GResult(gs, SCIMNotFoundError("patch_group", group_id, <<>>))
        ELSE
          LET loop == patch_group_loop(gs, group_model[1], Operations, 1,
                                       Acc("", EmptyDict, Range(group_model[1].user_ids), FALSE))
              db_updates == IF loop.members_changed
                            THEN [user_ids |-> ListOfSet(loop.current_user_ids, order)] @@ loop.db_updates
                            ELSE loop.db_updates
              upd == Groups_update_group_by_id(gs, group_id, db_updates, ok)
              writes == <<Call("update_group_by_id", group_id, db_updates)>>
              final_group_model == Groups_get_group_by_id(upd.groups, group_id)
          IN  IF loop.error # "" THEN GResult(gs, GroupError(loop.error, "patch_group", group_id, <<>>))
              ELSE IF DOMAIN db_updates = {}
              THEN GResult(gs, Response("patch_group", group_id, 200, "",
                                        GroupBody(us, group_model[1], base_url), NoList, <<>>))
              ELSE IF upd.ret = <<>>
              THEN GResult(upd.groups, SCIMInternalServerError("patch_group", group_id, writes))
              ELSE GResult(upd.groups, Response("patch_group", group_id, 200, "",
                              GroupBody(us, final_group_model[1], base_url), NoList, writes))

GroupForm(name, description) == [name |-> name, description |-> description]

FirstAdmin_Last(admin_users) == admin_users[Len(admin_users)].id

\* owner_user_id = admin_users[0].id
FirstAdmin(admin_users) == admin_users[1].id

AfterFailedMemberUpdate_RolledBack(before, inserted) == before

\* a failed member update is only logged: the store keeps the inserted group
AfterFailedMemberUpdate(before, inserted) == inserted

create_group(gs, us, scim_group_payload, new_id, ok_insert, ok_update, base_url) ==
    LET group_data_for_db == scim_group_to_db_dict(scim_group_payload)
        admin_users == Users_get_users_by_role(us, "admin")
        owner_user_id == FirstAdmin(admin_users)
        ins == Groups_insert_new_group(gs, new_id, owner_user_id,
                   GroupForm(group_data_for_db.name, group_data_for_db.description), ok_insert)
        insert_call == Call("insert_new_group", new_id,
                            [user_id |-> owner_user_id, name |-> group_data_for_db.name,
                             description |-> group_data_for_db.description])
        with_members == group_data_for_db.user_ids # <<>>
        member_fields == [user_ids |-> group_data_for_db.user_ids]
        upd == Groups_update_group_by_id(ins.groups, new_id, member_fields, ok_update)
        \* a failed member update is logged and the group is answered without members
        after == IF ~with_members THEN ins.groups
                 ELSE IF upd.ret # <<>> THEN upd.groups
                 ELSE AfterFailedMemberUpdate(gs, upd.groups)
        new_group_model == IF with_members /\ upd.ret # <<>> THEN upd.ret ELSE ins.ret
        writes == IF with_members
                  THEN <<insert_call, Call("update_group_by_id", new_id, member_fields)>>
                  ELSE <<insert_call>>
    IN  IF ~Truthy(scim_group_payload.displayName)
        THEN GResult(gs, SCIMBadRequestError("create_group", NoId, <<>>))
        ELSE IF NameExists(gs, scim_group_payload.displayName)
        THEN GResult(gs, SCIMConflictError("create_group", NoId, <<>>))
        ELSE IF admin_users = <<>>
        THEN GResult(gs, SCIMInternalServerError("create_group", NoId, <<>>))
        ELSE IF ins.ret = <<>>
        THEN GResult(ins.groups, SCIMInternalServerError("create_group", new_id, <<insert_call>>))
        ELSE GResult(after, Response("create_group", new_id, 201, "",
                        GroupBody(us, new_group_model[1], base_url), NoList, writes))

get_group_by_id(gs, us, group_id, base_url) ==
    LET group_model == Groups_get_group_by_id(gs, group_id)
    IN  IF group_model = <<>> THEN GResult(gs, SCIMNotFoundError("get_group_by_id", group_id, <<>>))
        ELSE GResult(gs, Response("get_group_by_id", group_id, 200, "",
                                  GroupBody(us, group_model[1], base_url), NoList, <<>>))

\* GET /Groups/{id} with its query parameters: projection is refused first
get_group_by_id_projected(gs, us, group_id, attributes, excludedAttributes, base_url) ==
    IF Truthy(attributes) \/ Truthy(excludedAttributes)
    THEN GResult(gs, SCIMNotImplementedError("get_group_by_id", group_id, <<>>))
    ELSE get_group_by_id(gs, us, group_id, base_url)

replace_group(gs, us, group_id, scim_group_payload, ok, base_url) ==
    LET target_group == Groups_get_group_by_id(gs, group_id)
        conflict == /\ scim_group_payload.displayName # target_group[1].name
                    /\ NameTakenByOther(gs, scim_group_payload.displayName, group_id)
        update_data_db == scim_group_to_db_dict(scim_group_payload)
        upd == Groups_update_group_by_id(gs, group_id, update_data_db, ok)
        writes == <<Call("update_group_by_id", group_id, update_data_db)>>
        \* "if not updated_group": re-fetch, and answer with what the store holds
        updated_group == IF upd.ret # <<>> THEN upd.ret
                         ELSE Groups_get_group_by_id(upd.groups, group_id)
    IN  IF Truthy(scim_group_payload.id) /\ scim_group_payload.id # group_id
        THEN GResult(gs, SCIMBadRequestError("replace_group", group_id, <<>>))
        ELSE IF target_group = <<>>
        THEN GResult(gs, SCIMNotFoundError("replace_group", group_id, <<>>))
        ELSE IF conflict
        THEN GResult(gs, SCIMConflictError("replace_group", group_id, <<>>))
        ELSE IF updated_group = <<>>
        THEN GResult(upd.groups, SCIMInternalServerError("replace_group", group_id, writes))
        ELSE GResult(upd.groups, Response("replace_group", group_id, 200, "",
                        GroupBody(us, updated_group[1], base_url), NoList, writes))

delete_group_Unchecked(gs, group_id, ok) ==
    LET del == Groups_delete_group_by_id(gs, group_id, ok)
        writes == <<Call("delete_group_by_id", group_id, EmptyDict)>>
    IN  IF ~del.ret
        THEN GResult(del.groups, SCIMInternalServerError("delete_group", group_id, writes))
        ELSE GResult(del.groups, Response("delete_group", group_id, 204, "", <<>>, NoList, writes))

delete_group(gs, group_id, ok) ==
    LET group_model == Groups_get_group_by_id(gs, group_id)
        del == Groups_delete_group_by_id(gs, group_id, ok)
        writes == <<Call("delete_group_by_id", group_id, EmptyDict)>>
    IN  IF group_model = <<>> THEN GResult(gs, SCIMNotFoundError("delete_group", group_id, <<>>))
        ELSE IF ~del.ret
        THEN GResult(del.groups, SCIMInternalServerError("delete_group", group_id, writes))
        ELSE GResult(del.groups, Response("delete_group", group_id, 204, "", <<>>, NoList, writes))

get_groups(gs, us, query, base_url) ==
    LET parsed == ParseFilter(query.filter, T_displayname)
        filter_display_name == parsed.value
        all_db_groups == Groups_get_groups(gs)
        group_models == IF Truthy(filter_display_name)
                        THEN SelectSeq(all_db_groups, LAMBDA g : g.name = filter_display_name)
                        ELSE all_db_groups
        total_results == Len(group_models)
        start_index_0_based == query.startIndex - 1
        end_index_0_based == start_index_0_based + query.count
        paginated_group_models == PySlice(group_models, start_index_0_based, end_index_0_based)
        scim_group_resources == [i \in DOMAIN paginated_group_models |->
                                    GroupBody(us, paginated_group_models[i], base_url)[1]]
    IN  IF Truthy(query.sortBy) \/ Truthy(query.sortOrder)
        THEN GResult(gs, SCIMNotImplementedError("get_groups", NoId, <<>>))
        ELSE IF Truthy(query.attributes) \/ Truthy(query.excludedAttributes)
        THEN GResult(gs, SCIMNotImplementedError("get_groups", NoId, <<>>))
        ELSE IF parsed.error # ""
        THEN GResult(gs, SCIMNotImplementedError("get_groups", NoId, <<>>))
        ELSE GResult(gs, Response("get_groups", NoId, 200, "", scim_group_resources,
                        <<ListPage(total_results, query.startIndex, scim_group_resources)>>, <<>>))

----------------------------------------------------------------------------
(* Requests the identity provider sends *)

T_AB == <<"A", " ", "B">>
T_A == <<"A">>

SCIMName(formatted, givenName, familyName) ==
    [formatted |-> formatted, givenName |-> givenName, familyName |-> familyName]

NamePayloads == { <<SCIMName(None, T_A, <<"B">>)>> }

UserPayloads ==
    [ id : {NoId} \cup UserIds,
      userName : Emails \cup {<<>>},
      name : NamePayloads,
      displayName : {None},
      active : BOOLEAN ]

\* operations that occur at every position of a request
UserPatchOps ==
    {PatchOp("replace", T_active, BoolValue(b)) : b \in BOOLEAN}
    \cup {PatchOp("replace", T_userName, StrValue(<<"b">>))}
    \cup {PatchOp("add", T_active, BoolValue(TRUE))}

\* operations that occur only as a request of their own
UserPatchOpsAlone ==
    {PatchOp("replace", T_Active, BoolValue(FALSE)),
     PatchOp("replace", T_active, StrValue(<<"A">>)),
     PatchOp("replace", T_userName, StrValue(<<"a">>)),
     PatchOp("replace", T_userName, StrValue(<<"c">>)),
     PatchOp("replace", T_userName, IntValue(1)),
     PatchOp("replace", T_displayName, StrValue(T_A)),
     PatchOp("replace", None, BoolValue(TRUE)),
     PatchOp("remove", T_active, NullValue)}

RECURSIVE SeqsUpTo(_, _)
SeqsUpTo(S, n) ==
    IF n = 0 THEN {<<>>}
    ELSE LET shorter == SeqsUpTo(S, n - 1)
         IN  shorter \cup {Append(q, x) : q \in {r \in shorter : Len(r) = n - 1}, x \in S}

UserPatchRequests == SeqsUpTo(UserPatchOps, MaxOps) \cup {<<o>> : o \in UserPatchOpsAlone}

Query(startIndex, count, filter, sortBy, sortOrder, attributes, excludedAttributes) ==
    [startIndex |-> startIndex, count |-> count, filter |-> filter, sortBy |-> sortBy,
     sortOrder |-> sortOrder, attributes |-> attributes, excludedAttributes |-> excludedAttributes]

FilterOn(attribute, value) == attribute \o <<" ">> \o T_eq \o <<" ", "\"">> \o value \o <<"\"">>

UserFilters ==
    {None} \cup {FilterOn(T_userName, e) : e \in Emails}
    \cup {FilterOn(T_displayName, <<"a">>)}

UserQueries ==
    {Query(s, c, f, None, None, None, None) : s \in 1..2, c \in 0..1, f \in UserFilters}
    \cup {Query(1, 1, None, T_userName, None, None, None),
          Query(1, 1, None, None, None, T_userName, None)}

NoResponse == Response("none", NoId, 0, "", <<>>, NoList, <<>>)

InitUsers ==
    << [id |-> <<"1">>, email |-> <<"a">>, name |-> T_A, role |-> "admin",
        created_at |-> 1, updated_at |-> 1] >>

NoUser == [id |-> NoId, email |-> <<>>, name |-> <<>>, role |-> "pending",
           created_at |-> NoTime, updated_at |-> NoTime]

MapperIdle == mu = NoUser /\ mwire = <<>> /\ mdb = <<>>

T_t == <<"t">>

\* SCIM enabled, with a token configured
Configured == [enable_scim |-> TRUE, scim_token |-> T_t]

\* _USER_SCIM_SCHEMA_CACHE = None, _GROUP_SCIM_SCHEMA_CACHE = None
EmptyCache == [User |-> <<>>, Group |-> <<>>]

\* requests are handled one at a time unless a specification says otherwise
NoRequests == <<>>

AuxIdle ==
    /\ config = Configured
    /\ cache = EmptyCache /\ computed = [User |-> 0, Group |-> 0]
    /\ inflight = NoRequests

----------------------------------------------------------------------------
(* Specification of the Users endpoints: one action per request *)

Apply(r) == users' = r.users /\ resp' = r.resp

CreateUser ==
    \E p \in UserPayloads, fresh \in UserIds, ok \in BOOLEAN, base \in BaseUrls :
        /\ IF Truthy(p.id) THEN fresh = p.id
           ELSE Users_get_user_by_id(users, fresh) = <<>>
        /\ Apply(create_user(users, p, fresh, ok, base))
        /\ UNCHANGED <<groups, mu, mwire, mdb, aux>>

GetUser ==
    \E id \in UserIds, base \in BaseUrls :
        /\ Apply(get_user_by_id(users, id, base))
        /\ UNCHANGED <<groups, mu, mwire, mdb, aux>>

GetUsers ==
    \E q \in UserQueries, base \in BaseUrls :
        /\ Apply(get_users(users, q, base))
        /\ UNCHANGED <<groups, mu, mwire, mdb, aux>>

ReplaceUser ==
    \E id \in UserIds, p \in UserPayloads, ok \in BOOLEAN, base \in BaseUrls :
        /\ Truthy(p.userName)
        /\ Apply(replace_user(users, id, p, ok, base))
        /\ UNCHANGED <<groups, mu, mwire, mdb, aux>>

\* the store fails only under requests of at most one operation
StoreOutcomes(Operations) == IF Len(Operations) <= 1 THEN BOOLEAN ELSE {TRUE}

PatchUser ==
    \E id \in UserIds, ops \in UserPatchRequests, base \in BaseUrls :
      \E ok \in StoreOutcomes(ops) :
        /\ LET r == patch_user(users, id, ops, ok, base)
           IN  users' = r.users /\ resp' = [r.resp EXCEPT !.asked = Asked(ops)]
        /\ UNCHANGED <<groups, mu, mwire, mdb, aux>>

DeleteUser ==
    \E id \in UserIds, ok \in BOOLEAN :
        /\ Apply(delete_user(users, id, ok))
        /\ UNCHANGED <<groups, mu, mwire, mdb, aux>>

InitStore == users = InitUsers /\ groups = <<>> /\ resp = NoResponse /\ AuxIdle

UsersInit == InitStore /\ MapperIdle

UsersNext == CreateUser \/ GetUser \/ GetUsers \/ ReplaceUser \/ PatchUser \/ DeleteUser

SpecUsers == UsersInit /\ [][UsersNext]_vars

----------------------------------------------------------------------------
(* Requests on groups *)

T_E == <<"E">>
T_e == <<"e">>

RemovePath(id) == T_members_value_eq \o <<" ", "\"">> \o id \o <<"\"", "]">>
\* the id without its quotes: split('"') finds one piece only
RemovePathUnquoted(id) == T_members_value_eq \o <<" ">> \o id \o <<"]">>

MemberLists == SeqsUpTo(MemberIds, MaxMembers)

MemberObjs(ids) == [i \in DOMAIN ids |-> MemberObj(ids[i])]

\* payloads without an id, and one that names the id of the group that is only read
GroupPayloads ==
    [ id : {NoId},
      displayName : {T_E, T_e, <<>>},
      members : {NoneList} \cup MemberLists ]
    \cup {[id |-> <<"2">>, displayName |-> T_E, members |-> NoneList]}

\* operations that occur at every position of a request
GroupPatchOps ==
    { PatchOp("replace", T_displayName, StrValue(T_E)),
      PatchOp("add", T_members, ListValue(MemberObjs(<< <<"9">> >>))),
      PatchOp("remove", RemovePath(<<"1">>), NullValue) }

\* operations that occur only as a request of their own
GroupPatchOpsAlone ==
    {PatchOp("replace", T_members, ListValue(MemberObjs(l))) : l \in MemberLists}
    \cup {PatchOp("add", T_members, ListValue(MemberObjs(l))) : l \in MemberLists}
    \cup {PatchOp("remove", RemovePath(id), NullValue) : id \in MemberIds}
    \cup { PatchOp("replace", T_displayName, StrValue(T_e)),
           PatchOp("replace", T_displayName, IntValue(1)),
           PatchOp("replace", T_members, NullValue),
           PatchOp("replace", T_members, ListValue(<<MemberObj(<<"1">>), MemberNoDict>>)),
           PatchOp("replace", T_members, StrValue(T_A)),
           PatchOp("replace", T_members, IntValue(1)),
           PatchOp("add", T_members, NullValue),
           PatchOp("add", T_members, StrValue(T_A)),
           PatchOp("add", T_members, ListValue(<<MemberNoValue>>)),
           PatchOp("remove", RemovePathUnquoted(<<"1">>), NullValue),
           PatchOp("remove", T_members, NullValue),
           PatchOp("remove", None, ListValue(MemberObjs(<< <<"1">> >>))),
           PatchOp("replace", T_active, BoolValue(TRUE)),
           PatchOp("add", T_displayName, StrValue(T_E)) }

\* requests of two operations, one of them outside the supported table
GroupPatchRequestsUnsupported ==
    { << PatchOp("replace", T_active, BoolValue(TRUE)),
         PatchOp("add", T_members, ListValue(MemberObjs(<< <<"9">> >>))) >>,
      << PatchOp("add", T_members, ListValue(MemberObjs(<< <<"9">> >>))),
         PatchOp("add", T_displayName, StrValue(T_E)) >> }

GroupPatchRequests ==
    SeqsUpTo(GroupPatchOps, MaxOps) \cup {<<o>> : o \in GroupPatchOpsAlone}
    \cup GroupPatchRequestsUnsupported

\* the orders in which list(set) may enumerate the member ids
SetOrders == {q \in SeqsUpTo(MemberIds, Cardinality(MemberIds)) : Range(q) = MemberIds}

GroupFilters ==
    {None, FilterOn(T_displayName, T_E), FilterOn(T_userName, T_E)}

GroupQueries ==
    {Query(s, c, f, None, None, None, None) : s \in 1..2, c \in 0..1, f \in GroupFilters}
    \cup {Query(1, 1, None, T_displayName, None, None, None),
          Query(1, 1, None, None, None, None, T_members)}

\* the group the requests address; the other group of the table is only read
GroupTargets == {<<"1">>}

InitGroups ==
    << [id |-> <<"2">>, name |-> T_e, description |-> <<"d">>, user_id |-> <<"1">>,
        user_ids |-> << <<"1">> >>, created_at |-> 1, updated_at |-> 1],
       [id |-> <<"1">>, name |-> T_E, description |-> <<"d">>, user_id |-> <<"1">>,
        user_ids |-> << <<"1">> >>, created_at |-> 1, updated_at |-> 1] >>

\* a user table without an admin
InitUsersNoAdmin ==
    << [id |-> <<"1">>, email |-> <<"a">>, name |-> T_A, role |-> "user",
        created_at |-> 1, updated_at |-> 1] >>

----------------------------------------------------------------------------
(* Specification of the Groups endpoints: one action per request *)

GApply(r) == groups' = r.groups /\ resp' = r.resp

CreateGroup ==
    \E p \in GroupPayloads, new_id \in GroupIds, ok1 \in BOOLEAN, ok2 \in BOOLEAN, base \in BaseUrls :
        /\ p.id = NoId
        /\ Groups_get_group_by_id(groups, new_id) = <<>>
        /\ GApply(create_group(groups, users, p, new_id, ok1, ok2, base))
        /\ UNCHANGED <<users, mu, mwire, mdb, aux>>

GetGroup ==
    \E id \in GroupTargets, base \in BaseUrls :
        /\ GApply(get_group_by_id(groups, users, id, base))
        /\ UNCHANGED <<users, mu, mwire, mdb, aux>>

GetGroups ==
    \E q \in GroupQueries, base \in BaseUrls :
        /\ GApply(get_groups(groups, users, q, base))
        /\ UNCHANGED <<users, mu, mwire, mdb, aux>>

ReplaceGroup ==
    \E id \in GroupTargets, p \in GroupPayloads, ok \in BOOLEAN, base \in BaseUrls :
        /\ Truthy(p.displayName)
        /\ GApply(replace_group(groups, users, id, p, ok, base))
        /\ UNCHANGED <<users, mu, mwire, mdb, aux>>

\* the store fails only under the requests of one operation of GroupPatchOps
GroupStoreOutcomes(Operations) ==
    IF Len(Operations) = 1 /\ Operations[1] \in GroupPatchOps THEN BOOLEAN ELSE {TRUE}

PatchGroup ==
    \E id \in GroupTargets, ops \in GroupPatchRequests, order \in SetOrders, base \in BaseUrls :
      \E ok \in GroupStoreOutcomes(ops) :
        /\ LET r == patch_group(groups, users, id, ops, order, ok, base)
           IN  groups' = r.groups /\ resp' = [r.resp EXCEPT !.asked = Asked(ops)]
        /\ UNCHANGED <<users, mu, mwire, mdb, aux>>

DeleteGroup ==
    \E id \in GroupTargets, ok \in BOOLEAN :
        /\ GApply(delete_group(groups, id, ok))
        /\ UNCHANGED <<users, mu, mwire, mdb, aux>>

GroupsInit ==
    /\ users \in {InitUsers, InitUsersNoAdmin}
    /\ groups = InitGroups
    /\ resp = NoResponse
    /\ MapperIdle
    /\ AuxIdle

GroupsNext == CreateGroup \/ GetGroup \/ GetGroups \/ ReplaceGroup \/ PatchGroup \/ DeleteGroup

SpecGroups == GroupsInit /\ [][GroupsNext]_vars

----------------------------------------------------------------------------
(* Specification of the mapper alone: a user record goes to the wire and back *)

MapperUsers ==
    [ id : {<<"1">>},
      email : Emails,
      name : TextsUpTo(MaxNameLen),
      role : Roles,
      created_at : {NoTime, 1},
      updated_at : {NoTime, 2} ]

ToWire ==
    /\ mwire = <<>>
    /\ \E base \in BaseUrls : mwire' = <<user_to_scim_user(mu, base)>>
    /\ UNCHANGED <<users, groups, resp, mu, mdb, aux>>

FromWire ==
    /\ mwire # <<>> /\ mdb = <<>>
    /\ mdb' = <<scim_user_to_db_dict(mwire[1])>>
    /\ UNCHANGED <<users, groups, resp, mu, mwire, aux>>

MapperInit == InitStore /\ mu \in MapperUsers /\ mwire = <<>> /\ mdb = <<>>

MapperNext == ToWire \/ FromWire

SpecMapper == MapperInit /\ [][MapperNext]_vars

----------------------------------------------------------------------------
(* Schemas router: routers/scim_schemas.py.  The two schema definitions    *)
(* are module globals that start as None and are filled on first use.      *)

USER_SCHEMA_URN == "urn:ietf:params:scim:schemas:core:2.0:User"
GROUP_SCHEMA_URN == "urn:ietf:params:scim:schemas:core:2.0:Group"
SCHEMA_SCHEMA_URN == "urn:ietf:params:scim:schemas:core:2.0:Schema"

ResourceTypeNames == {"User", "Group"}

UrnOf(name) == IF name = "User" THEN USER_SCHEMA_URN ELSE GROUP_SCHEMA_URN

pydantic_type_to_scim_type(pydantic_type, pydantic_format) ==
    IF pydantic_type = "string"
    THEN IF pydantic_format = "date-time" THEN "dateTime" ELSE "string"
    ELSE IF pydantic_type = "integer" THEN "integer"
    ELSE IF pydantic_type = "number" THEN "decimal"
    ELSE IF pydantic_type = "boolean" THEN "boolean"
    ELSE IF pydantic_type = "array" \/ pydantic_type = "object" THEN "complex"
    ELSE "string"

\* one entry of "properties": the field name and the JSON schema of the field
Property(name, schema) == [name |-> name, schema |-> schema]

\* JSON schemas as model_json_schema (pydantic 2) writes them for the
\* annotations of the model classes: str, bool, datetime, Optional[X],
\* a model class (a reference into $defs), List[X], and a class in $defs
TextSchema == [type |-> "string"]
BooleanSchema == [type |-> "boolean"]
DateTimeSchema == [type |-> "string", format |-> "date-time"]
NullSchema == [type |-> "null"]
OptionalSchema(schema) == [anyOf |-> <<schema, NullSchema>>]
RefSchema(model) == [ref |-> model]
ArraySchema(items) == [type |-> "array", items |-> items]
ObjectSchema(properties, required) ==
    [type |-> "object", properties |-> properties, required |-> required]

\* "$defs" of the JSON schema: the nested model classes, with the fields the
\* metadata tests look at
JsonSchemaDefs ==
    [ SCIMName |->
          ObjectSchema(<< Property("formatted", OptionalSchema(TextSchema)),
                          Property("familyName", OptionalSchema(TextSchema)),
                          Property("givenName", OptionalSchema(TextSchema)) >>, <<>>),
      SCIMEmail |->
          ObjectSchema(<< Property("value", OptionalSchema(TextSchema)),
                          Property("primary", OptionalSchema(BooleanSchema)) >>, <<>>),
      SCIMGroupMember |->
          ObjectSchema(<< Property("value", TextSchema),
                          Property("display", OptionalSchema(TextSchema)) >>, <<"value">>),
      SCIMMeta |->
          ObjectSchema(<< Property("resourceType", TextSchema),
                          Property("created", OptionalSchema(DateTimeSchema)) >>,
                       <<"resourceType">>) ]

\* "properties" of the JSON schema of the model class, for the fields the
\* metadata tests look at
JsonSchemaProperties(name) ==
    IF name = "User"
    THEN << Property("id", TextSchema),
            Property("userName", TextSchema),
            Property("name", OptionalSchema(RefSchema("SCIMName"))),
            Property("active", OptionalSchema(BooleanSchema)),
            Property("emails", OptionalSchema(ArraySchema(RefSchema("SCIMEmail")))),
            Property("meta", RefSchema("SCIMMeta")) >>
    ELSE << Property("id", TextSchema),
            Property("displayName", TextSchema),
            Property("members", OptionalSchema(ArraySchema(RefSchema("SCIMGroupMember")))),
            Property("meta", RefSchema("SCIMMeta")) >>

\* "required" of the JSON schema of the model class
JsonSchemaRequired(name) ==
    IF name = "User" THEN <<"id", "userName", "meta">> ELSE <<"id", "displayName", "meta">>

\* the first schema of anyOf that is not of type null, else a string
FirstNonNull(anyOf) ==
    LET non_null == SelectSeq(anyOf, LAMBDA s : Get(s, "type", "") # "null")
    IN  IF non_null # <<>> THEN non_null[1] ELSE TextSchema

\* the schema behind a "$ref" that $defs knows, else the schema itself
Referred(schema, definitions) ==
    IF "ref" \in DOMAIN schema /\ schema.ref \in DOMAIN definitions
    THEN definitions[schema.ref] ELSE schema

\* no subAttributes: None
NoAttributes == <<>>

RECURSIVE convert_properties_to_scim_attributes(_, _, _)
convert_properties_to_scim_attributes(properties, required_list, definitions) ==
    IF properties = <<>> THEN <<>>
    ELSE
      LET name == properties[1].name
          declared == properties[1].schema
          others == convert_properties_to_scim_attributes(Tail(properties), required_list,
                                                          definitions)
          \* a "$ref" of the property itself is resolved first
          unknown_ref == "ref" \in DOMAIN declared /\ declared.ref \notin DOMAIN definitions
          resolved == Referred(declared, definitions)
          \* then anyOf is unwrapped; what it yields is taken as it is (allOf,
          \* which no field of the model classes has, is left out)
          prop_schema == IF "anyOf" \in DOMAIN resolved THEN FirstNonNull(resolved.anyOf)
                         ELSE resolved
          pydantic_type == Get(prop_schema, "type", "string")
          pydantic_format == Get(prop_schema, "format", "")
          scim_type == pydantic_type_to_scim_type(pydantic_type, pydantic_format)
          multi_valued == pydantic_type = "array"
          item_schema == Referred(prop_schema.items, definitions)
          sub_attributes ==
              IF scim_type = "complex" /\ ~multi_valued /\ "properties" \in DOMAIN prop_schema
              THEN convert_properties_to_scim_attributes(
                       prop_schema.properties, Get(prop_schema, "required", <<>>), definitions)
              ELSE IF multi_valued /\ "items" \in DOMAIN prop_schema
              THEN IF Get(item_schema, "type", "") = "object" /\ "properties" \in DOMAIN item_schema
                   THEN convert_properties_to_scim_attributes(
                            item_schema.properties, Get(item_schema, "required", <<>>),
                            definitions)
                   ELSE NoAttributes
              ELSE NoAttributes
          attr == [ name |-> name,
                    type |-> scim_type,
                    multiValued |-> multi_valued,
                    required |-> name \in Range(required_list),
                    mutability |-> "readWrite",
                    subAttributes |-> sub_attributes ]
      IN  IF unknown_ref THEN others ELSE <<attr>> \o others

pydantic_schema_to_scim_schema(schema_urn, name, base_scim_url) ==
    [ id |-> schema_urn,
      name |-> name,
      attributes |-> convert_properties_to_scim_attributes(
                         JsonSchemaProperties(name), JsonSchemaRequired(name), JsonSchemaDefs),
      meta |-> [ resourceType |-> "Schema",
                 location |-> Location(base_scim_url, "Schemas", schema_urn) ] ]

CacheMiss_Always(entry) == TRUE

\* if not _USER_SCIM_SCHEMA_CACHE
CacheMiss(entry) == entry = <<>>

\* the cache entry of one resource type after a request with this base URL:
\* computed when it is missing, and its meta.location set for this request
Cached(entry, name, base_scim_url) ==
    LET definition == IF CacheMiss(entry)
                      THEN pydantic_schema_to_scim_schema(UrnOf(name), name, base_scim_url)
                      ELSE entry[1]
    IN  << [definition EXCEPT !.meta.location =
                Location(base_scim_url, "Schemas", UrnOf(name))] >>

\* the count of computations of one resource type after such a request
Computed(entry, n) == IF CacheMiss(entry) THEN n + 1 ELSE n

SchemaResult(c, n, r) == [cache |-> c, computed |-> n, resp |-> r]

get_schemas(c, n, base_scim_url) ==
    LET user == Cached(c.User, "User", base_scim_url)
        group == Cached(c.Group, "Group", base_scim_url)
        resources == user \o group
    IN  SchemaResult([User |-> user, Group |-> group],
                     [User |-> Computed(c.User, n.User), Group |-> Computed(c.Group, n.Group)],
                     Response("get_schemas", NoId, 200, "", resources,
                              <<ListPage(Len(resources), 1, resources)>>, <<>>))

get_schema_by_id(c, n, schema_id, base_scim_url) ==
    IF schema_id = USER_SCHEMA_URN \/ schema_id = GROUP_SCHEMA_URN
    THEN LET name == IF schema_id = USER_SCHEMA_URN THEN "User" ELSE "Group"
             entry == Cached(c[name], name, base_scim_url)
         IN  SchemaResult([c EXCEPT ![name] = entry],
                          [n EXCEPT ![name] = Computed(c[name], n[name])],
                          Response("get_schema_by_id", schema_id, 200, "", entry, NoList, <<>>))
    ELSE SchemaResult(c, n, SCIMNotFoundError("get_schema_by_id", schema_id, <<>>))

----------------------------------------------------------------------------
(* Specification of the Schemas endpoints: one action per request *)

MaxComputed == 2

\* get_scim_base_url: scheme, host and root path of the request, then scim/v2
SchemaBaseUrls ==
    {"https://idp/scim/v2", "http://idp/scim/v2", "http://localhost:8080/scim/v2",
     "https://other/scim/v2", "https://other/api/scim/v2"}

SchemaIds == {USER_SCHEMA_URN, GROUP_SCHEMA_URN, SCHEMA_SCHEMA_URN, "User"}

SApply(r) ==
    /\ \A name \in ResourceTypeNames : r.computed[name] <= MaxComputed
    /\ cache' = r.cache /\ computed' = r.computed /\ resp' = r.resp

GetSchemas ==
    \E base \in SchemaBaseUrls :
        /\ SApply(get_schemas(cache, computed, base))
        /\ UNCHANGED <<users, groups, mu, mwire, mdb, config, inflight>>

GetSchemaById ==
    \E base \in SchemaBaseUrls, schema_id \in SchemaIds :
        /\ SApply(get_schema_by_id(cache, computed, schema_id, base))
        /\ UNCHANGED <<users, groups, mu, mwire, mdb, config, inflight>>

SchemasInit == InitStore /\ MapperIdle

SchemasNext == GetSchemas \/ GetSchemaById

SpecSchemas == SchemasInit /\ [][SchemasNext]_vars

----------------------------------------------------------------------------
(* Specification of PATCH requests of several operations, among them      *)
(* operations outside the supported table                                  *)

UserOpsUnsupported ==
    { PatchOp("add", T_active, BoolValue(TRUE)),
      PatchOp("remove", T_active, NullValue),
      PatchOp("remove", T_userName, NullValue),
      PatchOp("replace", T_displayName, StrValue(T_A)),
      PatchOp("replace", None, BoolValue(TRUE)) }

UserOpsBefore ==
    { <<>>,
      <<PatchOp("replace", T_active, BoolValue(FALSE))>>,
      <<PatchOp("replace", T_userName, StrValue(<<"b">>))>>,
      <<PatchOp("replace", T_active, StrValue(T_A))>> }

UserOpsAfter == { <<>>, <<PatchOp("replace", T_active, BoolValue(FALSE))>> }

GroupOpsUnsupported ==
    { PatchOp("replace", T_active, BoolValue(TRUE)),
      PatchOp("replace", None, StrValue(T_E)),
      PatchOp("add", T_displayName, StrValue(T_E)),
      PatchOp("add", None, ListValue(MemberObjs(<< <<"9">> >>))),
      PatchOp("remove", T_members, NullValue),
      PatchOp("remove", T_displayName, NullValue),
      PatchOp("remove", None, ListValue(MemberObjs(<< <<"1">> >>))),
      PatchOp("remove", None, NullValue) }

GroupOpsBefore ==
    { <<>>,
      <<PatchOp("add", T_members, ListValue(MemberObjs(<< <<"9">> >>)))>>,
      <<PatchOp("replace", T_displayName, StrValue(<<"1">>))>>,
      <<PatchOp("replace", T_displayName, StrValue(T_e))>>,
      <<PatchOp("add", T_members, ListValue(<<MemberNoValue>>))>> }

GroupOpsAfter == { <<>>, <<PatchOp("replace", T_members, NullValue)>> }

\* requests that hold an unsupported operation between supported ones
UserRequestsSeveral ==
    {before \o <<u>> \o after :
        before \in UserOpsBefore, u \in UserOpsUnsupported, after \in UserOpsAfter}

GroupRequestsSeveral ==
    {before \o <<u>> \o after :
        before \in GroupOpsBefore, u \in GroupOpsUnsupported, after \in GroupOpsAfter}

\* the stores the requests are sent to
PatchedUsers == {<<>>, InitUsers, InitUsersNoAdmin}

PatchedGroups ==
    { <<>>, InitGroups, <<InitGroups[1]>>, <<InitGroups[2]>>,
      <<[InitGroups[2] EXCEPT !.user_ids = <<>>]>>,
      <<[InitGroups[1] EXCEPT !.user_ids = << <<"1">>, <<"2">> >>]>> }

PatchUserSeveral ==
    \E id \in UserIds, ops \in UserRequestsSeveral, base \in BaseUrls :
        /\ LET r == patch_user(users, id, ops, TRUE, base)
           IN  users' = r.users /\ resp' = [r.resp EXCEPT !.asked = Asked(ops)]
        /\ UNCHANGED <<groups, mu, mwire, mdb, aux>>

PatchGroupSeveral ==
    \E id \in GroupIds, ops \in GroupRequestsSeveral, order \in SetOrders, base \in BaseUrls :
        /\ LET r == patch_group(groups, users, id, ops, order, TRUE, base)
           IN  groups' = r.groups /\ resp' = [r.resp EXCEPT !.asked = Asked(ops)]
        /\ UNCHANGED <<users, mu, mwire, mdb, aux>>

PatchInit ==
    /\ users \in PatchedUsers
    /\ groups \in PatchedGroups
    /\ resp = NoResponse
    /\ MapperIdle
    /\ AuxIdle

PatchNext == PatchUserSeveral \/ PatchGroupSeveral

SpecPatch == PatchInit /\ [][PatchNext]_vars

----------------------------------------------------------------------------
(* Specification of the list endpoints alone, over stores of zero to       *)
(* three records                                                           *)

\* a two-word name, as "Group One" of the groups test
T_A_B == <<"A", " ", "B">>

ListedUsers ==
    { <<>>, InitUsers, InitUsersNoAdmin,
      InitUsers \o << [id |-> <<"2">>, email |-> <<"b">>, name |-> T_A_B, role |-> "user",
                       created_at |-> 1, updated_at |-> 1] >> }

ListedGroups ==
    { <<>>, InitGroups, <<InitGroups[2]>>,
      InitGroups \o << [id |-> <<"3">>, name |-> T_A_B, description |-> <<"d">>,
                        user_id |-> <<"1">>, user_ids |-> <<>>,
                        created_at |-> 1, updated_at |-> 1] >> }

ListsInit ==
    /\ users \in ListedUsers
    /\ groups \in ListedGroups
    /\ resp = NoResponse
    /\ MapperIdle
    /\ AuxIdle

ListsNext == GetUsers \/ GetGroups

SpecLists == ListsInit /\ [][ListsNext]_vars

----------------------------------------------------------------------------
(* Properties of the Users endpoints and of the mapper *)

UserEndpoints == {"get_users", "create_user", "get_user_by_id", "replace_user", "patch_user"}

EmailsUnique(us) == \A i, j \in DOMAIN us : us[i].email = us[j].email => i = j

OwnedByOther(us, email, id) == \E k \in DOMAIN us : us[k].email = email /\ us[k].id # id

\* the request ended in Conflict and nothing was written
Refused(r, us) ==
    /\ r.resp.status = 409
    /\ r.resp.scimType = "uniqueness"
    /\ r.resp.writes = <<>>
    /\ r.users = us

\* C1: in every User resource an endpoint returns, active is TRUE exactly when
\* the stored role of that user is not "pending"
C1_ActiveIsRoleNotPending ==
    resp.op \in UserEndpoints =>
        \A i \in DOMAIN resp.body :
            LET stored == Users_get_user_by_id(users, resp.body[i].id)
            IN  /\ stored # <<>>
                /\ resp.body[i].active = (stored[1].role # "pending")

C1_Witness ==
    /\ resp.op = "patch_user" /\ resp.status = 200
    /\ resp.asked = <<"replace", T_active>>
    /\ resp.body # <<>> /\ resp.body[1].active = FALSE
    /\ Users_get_user_by_id(users, resp.id)[1].role = "pending"

\* C2 as the specification states it: a user record that goes to the wire and
\* back keeps its email, its name and its role, whatever the role and the name
C2_RoundTripKeepsRole ==
    mdb # <<>> => mdb[1] = [email |-> mu.email, name |-> mu.name, role |-> mu.role]

\* C2: a user record that goes to the wire and back keeps its email; keeps its
\* name when the name is not empty and gets the email as name otherwise; and
\* has role "pending" when it was pending and "user" otherwise
C2_RoundTrip ==
    mdb # <<>> =>
        /\ mdb[1].email = mu.email
        /\ mdb[1].name = (IF mu.name # <<>> THEN mu.name ELSE mu.email)
        /\ mdb[1].role = (IF mu.role = "pending" THEN "pending" ELSE "user")

C2_Witness ==
    /\ mdb # <<>>
    /\ mu.role = "admin" /\ mdb[1].role = "user"
    /\ FirstSpace(mu.name, 1) > 1 /\ mdb[1].name = mu.name

\* a PATCH operation that asks for an email another user holds
Colliding(op, id) ==
    /\ op.op = "replace" /\ op.path # None /\ Lower(op.path) = T_username
    /\ op.value.t = "str"
    /\ OwnedByOther(users, op.value.v, id)

\* C3: no two stored users ever share an email, and a POST, PUT or PATCH
\* userName that asks for the email of another user ends in Conflict and
\* writes nothing
C3_EmailUniquenessPreserved ==
    /\ EmailsUnique(users)
    /\ \A ok \in BOOLEAN, base \in BaseUrls :
        /\ \A p \in UserPayloads, fresh \in UserIds :
              (Truthy(p.userName) /\ OwnedByOther(users, p.userName, NoId))
                  => Refused(create_user(users, p, fresh, ok, base), users)
        /\ \A id \in UserIds, p \in UserPayloads :
              (/\ Users_get_user_by_id(users, id) # <<>>
               /\ p.id \in {NoId, id}
               /\ OwnedByOther(users, p.userName, id))
                  => Refused(replace_user(users, id, p, ok, base), users)
        /\ \A id \in UserIds, ops \in UserPatchRequests :
              (/\ Users_get_user_by_id(users, id) # <<>>
               /\ \E i \in DOMAIN ops : Colliding(ops[i], id))
                  => LET r == patch_user(users, id, ops, ok, base)
                     IN  /\ r.users = users /\ r.resp.writes = <<>>
                         /\ r.resp.status \in {400, 409, 501}
                         /\ Len(ops) = 1 => Refused(r, users)

C3_Witness ==
    /\ resp.op = "replace_user" /\ resp.status = 409 /\ resp.scimType = "uniqueness"
    /\ Len(users) = 2 /\ resp.writes = <<>>

\* C4: a POST /Users whose userName is the email of a stored user is answered
\* 409 uniqueness, makes no insert_new_auth call and leaves the users as they were
C4_CreateExistingEmailConflicts ==
    \A p \in UserPayloads, fresh \in UserIds, ok \in BOOLEAN, base \in BaseUrls :
        (Truthy(p.userName) /\ Users_get_user_by_email(users, p.userName) # <<>>)
            => Refused(create_user(users, p, fresh, ok, base), users)

C4_Witness ==
    /\ resp.op = "create_user" /\ resp.status = 409 /\ resp.scimType = "uniqueness"
    /\ resp.writes = <<>>

\* the role the specification gives a user after PATCH replace active
RoleAfterActive(role, active) ==
    IF active THEN (IF role = "pending" THEN "user" ELSE role) ELSE "pending"

\* C5: PATCH replace active with true makes a pending user a user and leaves
\* any other role as it is (an admin stays admin); with false it makes the
\* user pending
C5_PatchActiveKeepsOtherRoles ==
    [][\A id \in UserIds, b \in BOOLEAN, base \in BaseUrls :
          LET before == Users_get_user_by_id(users, id)
              ops == <<PatchOp("replace", T_active, BoolValue(b))>>
              r == patch_user(users, id, ops, TRUE, base)
          IN  (/\ before # <<>>
               /\ users' = r.users
               /\ resp' = [r.resp EXCEPT !.asked = Asked(ops)])
                  => Users_get_user_by_id(users', id)[1].role
                         = RoleAfterActive(before[1].role, b)]_vars

\* C6: PATCH replace userName with a value that differs from the user's email
\* ends in Conflict without a write when another user holds the value, and
\* otherwise makes the value the stored email
C6_PatchUserName ==
    \A id \in UserIds, e \in Emails, base \in BaseUrls :
        LET before == Users_get_user_by_id(users, id)
            r == patch_user(users, id, <<PatchOp("replace", T_userName, StrValue(e))>>, TRUE, base)
        IN  (before # <<>> /\ e # before[1].email) =>
                IF OwnedByOther(users, e, id) THEN Refused(r, users)
                ELSE /\ r.resp.status = 200
                     /\ r.resp.writes = <<Call("update_user_by_id", id, [email |-> e])>>
                     /\ Users_get_user_by_id(r.users, id)[1].email = e
                     /\ r.resp.body[1].userName = e

C6_Witness ==
    /\ resp.op = "patch_user" /\ resp.asked = <<"replace", T_userName>>
    /\ resp.status = 409 /\ resp.scimType = "uniqueness" /\ resp.writes = <<>>

----------------------------------------------------------------------------
(* Properties of the Groups endpoints *)

NameOfOther(gs, name, id) == \E k \in DOMAIN gs : gs[k].name = name /\ gs[k].id # id

\* the request ended in Conflict and nothing was written
GRefused(r, gs) ==
    /\ r.resp.status = 409
    /\ r.resp.scimType = "uniqueness"
    /\ r.resp.writes = <<>>
    /\ r.groups = gs

MembersOf(gs, id) == Range(Groups_get_group_by_id(gs, id)[1].user_ids)

NamesAsked == {T_E, T_e, <<"1">>}

\* C7: a POST, a PUT or a PATCH replace displayName that asks for the exact
\* (case-sensitive) name of another group ends in Conflict uniqueness and
\* leaves the groups as they were; a name no other group has, the group's own
\* current name included, is no conflict
C7_GroupNameUniqueness ==
    \A ok \in BOOLEAN, base \in BaseUrls :
        /\ \A p \in GroupPayloads, new_id \in GroupIds :
              LET r == create_group(groups, users, p, new_id, ok, ok, base)
              IN  (/\ Truthy(p.displayName)
                   /\ Groups_get_group_by_id(groups, new_id) = <<>>)
                      => IF NameOfOther(groups, p.displayName, NoId)
                         THEN GRefused(r, groups)
                         ELSE r.resp.status # 409
        /\ \A id \in GroupIds, p \in GroupPayloads :
              LET r == replace_group(groups, users, id, p, ok, base)
              IN  (/\ Groups_get_group_by_id(groups, id) # <<>>
                   /\ p.id \in {NoId, id}
                   /\ Truthy(p.displayName))
                      => IF NameOfOther(groups, p.displayName, id)
                         THEN GRefused(r, groups)
                         ELSE r.resp.status # 409
        /\ \A id \in GroupIds, n \in NamesAsked :
              LET r == patch_group(groups, users, id,
                                   <<PatchOp("replace", T_displayName, StrValue(n))>>,
                                   <<>>, ok, base)
                  before == Groups_get_group_by_id(groups, id)
              IN  before # <<>>
                      => IF NameOfOther(groups, n, id) THEN GRefused(r, groups)
                         ELSE IF n = before[1].name
                         THEN r.resp.status = 200 /\ r.groups = groups /\ r.resp.writes = <<>>
                         ELSE r.resp.status # 409

C7_Witness ==
    /\ resp.op = "replace_group" /\ resp.status = 409 /\ resp.scimType = "uniqueness"
    /\ resp.writes = <<>>
    /\ Len(groups) = 2

ReplaceValues ==
    {[value |-> ListValue(MemberObjs(V)), ids |-> Range(V)] : V \in MemberLists}
    \cup {[value |-> NullValue, ids |-> {}]}

\* C9: a PATCH replace members with the list V leaves the group with exactly
\* the ids of V as members (none when the value is empty or absent), and a
\* second application leaves the same members as the first
C9_ReplaceMembersIsExact ==
    \A id \in GroupIds, v \in ReplaceValues, o1 \in SetOrders, o2 \in SetOrders, base \in BaseUrls :
        LET ops == <<PatchOp("replace", T_members, v.value)>>
            r1 == patch_group(groups, users, id, ops, o1, TRUE, base)
            r2 == patch_group(r1.groups, users, id, ops, o2, TRUE, base)
        IN  Groups_get_group_by_id(groups, id) # <<>> =>
                /\ r1.resp.status = 200
                /\ MembersOf(r1.groups, id) = v.ids
                /\ r2.resp.status = 200
                /\ MembersOf(r2.groups, id) = MembersOf(r1.groups, id)

C9_Witness ==
    /\ resp.op = "patch_group" /\ resp.asked = <<"replace", T_members>>
    /\ resp.status = 200
    /\ Len(resp.writes) = 1
    /\ resp.writes[1].fields.user_ids = <<>>
    /\ MembersOf(groups, resp.id) = {}

\* C10: a PATCH remove with the path members[value eq "X"] takes X, and only
\* X, out of the members when X is a member; when X is no member the request
\* succeeds and the stored group is as it was
C10_RemoveMemberIsExact ==
    \A id \in GroupIds, X \in MemberIds, order \in SetOrders, base \in BaseUrls :
        LET r == patch_group(groups, users, id,
                             <<PatchOp("remove", RemovePath(X), NullValue)>>,
                             order, TRUE, base)
        IN  Groups_get_group_by_id(groups, id) # <<>> =>
                /\ r.resp.status = 200
                /\ MembersOf(r.groups, id) = MembersOf(groups, id) \ {X}
                /\ X \notin MembersOf(groups, id) => (r.groups = groups /\ r.resp.writes = <<>>)

C10_Witness ==
    /\ resp.op = "patch_group" /\ resp.asked = <<"remove", RemovePath(<<"9">>)>>
    /\ resp.status = 200
    /\ resp.writes = <<>>
    /\ MembersOf(groups, resp.id) = {<<"1">>}

----------------------------------------------------------------------------
(* Properties of PATCH requests *)

\* C11: a PATCH that holds an operation outside the supported table ends in
\* NotImplemented at the first such operation, unless an operation before it
\* has already ended the request with its own error; nothing is written, so
\* no operation after it is applied
C11_UnsupportedOperationFailsFast ==
    \A base \in BaseUrls, ok \in {TRUE} :
        /\ \A id \in UserIds, before \in UserOpsBefore, u \in UserOpsUnsupported,
              after \in UserOpsAfter :
              LET r == patch_user(users, id, before \o <<u>> \o after, ok, base)
                  pre == patch_user(users, id, before, TRUE, base)
              IN  Users_get_user_by_id(users, id) # <<>> =>
                      /\ r.users = users /\ r.resp.writes = <<>>
                      /\ IF pre.resp.status # 200
                         THEN r.resp.status = pre.resp.status
                         ELSE r.resp.status = 501 /\ r.resp.scimType = "notImplemented"
        /\ \A id \in GroupIds, before \in GroupOpsBefore, u \in GroupOpsUnsupported,
              after \in GroupOpsAfter :
              LET r == patch_group(groups, users, id, before \o <<u>> \o after, <<>>, ok, base)
                  pre == patch_group(groups, users, id, before, <<>>, TRUE, base)
              IN  Groups_get_group_by_id(groups, id) # <<>> =>
                      /\ r.groups = groups /\ r.resp.writes = <<>>
                      /\ IF pre.resp.status # 200
                         THEN r.resp.status = pre.resp.status
                         ELSE r.resp.status = 501 /\ r.resp.scimType = "notImplemented"

C11_Witness ==
    /\ resp.op = "patch_group" /\ resp.status = 501 /\ resp.scimType = "notImplemented"
    /\ resp.asked = <<>> /\ resp.writes = <<>>
    /\ MembersOf(groups, resp.id) = {<<"1">>}

----------------------------------------------------------------------------
(* Properties of the list endpoints *)

ListQuery(startIndex, count, filter) == Query(startIndex, count, filter, None, None, None, None)

UserList(startIndex, count, filter, base) ==
    get_users(users, ListQuery(startIndex, count, filter), base).resp

GroupList(startIndex, count, filter, base) ==
    get_groups(groups, users, ListQuery(startIndex, count, filter), base).resp

\* the ids of the records a listing is about, in store order
IdsOf(records) == [i \in DOMAIN records |-> records[i].id]

UsersWithEmail(v) == SelectSeq(users, LAMBDA u : u.email = v)
GroupsWithName(v) == SelectSeq(groups, LAMBDA g : g.name = v)

PageCounts == {1, 2, 3}

\* the pages startIndex = 1, 1 + count, ... of a listing of the records ids:
\* each is a list response that reports the total, holds the next count ids
\* in store order and reports as itemsPerPage the number it holds
PagesCover(Page(_, _), ids, count) ==
    LET n == Len(ids)
        last == IF n = 0 THEN 0 ELSE (n - 1) \div count
    IN  \A k \in 0..last :
            LET page == Page(1 + k * count, count)
            IN  /\ page.status = 200
                /\ page.list # <<>>
                /\ page.list[1].totalResults = n
                /\ page.list[1].itemsPerPage = Len(page.body)
                /\ Len(page.body) <= count
                /\ IdsOf(page.body) = SubSeq(ids, 1 + k * count, Min(n, (k + 1) * count))

GroupPagesCoverListing ==
    \A base \in BaseUrls, count \in PageCounts :
        /\ LET Page(s, c) == GroupList(s, c, None, base)
           IN  PagesCover(Page, IdsOf(groups), count)
        /\ \A v \in NamesAsked :
              LET Page(s, c) == GroupList(s, c, FilterOn(T_displayName, v), base)
              IN  PagesCover(Page, IdsOf(GroupsWithName(v)), count)

UserPagesCoverListing ==
    \A base \in BaseUrls, count \in PageCounts :
        /\ LET Page(s, c) == UserList(s, c, None, base)
           IN  PagesCover(Page, IdsOf(users), count)
        /\ \A v \in Emails :
              LET Page(s, c) == UserList(s, c, FilterOn(T_userName, v), base)
              IN  PagesCover(Page, IdsOf(UsersWithEmail(v)), count)

\* C12: for a listing of n (filtered) records and a count >= 1, the pages
\* startIndex = 1, 1 + count, 1 + 2*count, ... return every record once in
\* store order: each reports totalResults = n and as itemsPerPage the length
\* of its Resources, none holds more than count, and together they hold n
C12_PagesCoverListing == UserPagesCoverListing /\ GroupPagesCoverListing

\* a page asked past the end of a listing of n records: an empty list
\* response that still reports n
EmptyPage(page, n) ==
    /\ page.status = 200
    /\ page.list # <<>>
    /\ page.body = <<>>
    /\ page.list[1].itemsPerPage = 0
    /\ page.list[1].totalResults = n

CountsAsked == {0, 1, 2}

PastTheEnd(n) == {n + 1, n + 2}

GroupPagePastEndIsEmpty ==
    \A base \in BaseUrls, count \in CountsAsked :
        /\ \A s \in PastTheEnd(Len(groups)) :
              EmptyPage(GroupList(s, count, None, base), Len(groups))
        /\ \A v \in NamesAsked : \A s \in PastTheEnd(Len(GroupsWithName(v))) :
              EmptyPage(GroupList(s, count, FilterOn(T_displayName, v), base),
                        Len(GroupsWithName(v)))

UserPagePastEndIsEmpty ==
    \A base \in BaseUrls, count \in CountsAsked :
        /\ \A s \in PastTheEnd(Len(users)) :
              EmptyPage(UserList(s, count, None, base), Len(users))
        /\ \A v \in Emails : \A s \in PastTheEnd(Len(UsersWithEmail(v))) :
              EmptyPage(UserList(s, count, FilterOn(T_userName, v), base),
                        Len(UsersWithEmail(v)))

\* C13: a startIndex past the end of the filtered set is no error: the
\* answer has no Resources, itemsPerPage 0 and totalResults the size of the
\* filtered set, whatever startIndex and count are
C13_PagePastEndIsEmpty == UserPagePastEndIsEmpty /\ GroupPagePastEndIsEmpty

\* the answer to a filtered list request that is asked for everything (a
\* first page as long as the store): exactly the given records
Selects(page, records) ==
    /\ page.status = 200
    /\ page.list # <<>>
    /\ page.list[1].totalResults = Len(records)
    /\ IdsOf(page.body) = IdsOf(records)

GroupFilterSelects(names) ==
    \A base \in BaseUrls, v \in names :
        Selects(GroupList(1, Len(groups) + 1, FilterOn(T_displayName, v), base),
                GroupsWithName(v))

UserFilterSelects ==
    \A base \in BaseUrls, v \in Emails :
        Selects(UserList(1, Len(users) + 1, FilterOn(T_userName, v), base),
                UsersWithEmail(v))

GroupFilterSelectsOneWordNames == GroupFilterSelects(NamesAsked)

\* C14: the filter displayName eq "v" on Groups (userName eq "v" on Users)
\* returns exactly the groups named v (the users whose email is v), with
\* totalResults their number and none when nothing matches, for every value
\* a name can take, a two-word name included
C14_FilterSelectsExactMatches ==
    GroupFilterSelects(NamesAsked \cup {T_A_B}) /\ UserFilterSelects

T_USERNAME == <<"U", "S", "E", "R", "N", "A", "M", "E">>
T_DisplayName == <<"D", "i", "s", "p", "l", "a", "y", "N", "a", "m", "e">>
T_EQ == <<"E", "Q">>
T_Eq == <<"E", "q">>
T_ne == <<"n", "e">>
T_co == <<"c", "o">>
T_and == <<"a", "n", "d">>
T_or == <<"o", "r">>
T_emails == <<"e", "m", "a", "i", "l", "s">>
T_ascending == <<"a", "s", "c", "e", "n", "d", "i", "n", "g">>

Clause(attribute, operator, value) ==
    attribute \o <<" ">> \o operator \o <<" ", "\"">> \o value \o <<"\"">>

Quoted(value) == <<"\"">> \o value \o <<"\"">>

UserNameSpellings == {T_userName, T_username, T_USERNAME}
DisplayNameSpellings == {T_displayName, T_displayname, T_DisplayName}
EqSpellings == {T_eq, T_EQ, T_Eq}
ValuesAsked == {<<"a">>, T_E}

\* filters that are the single clause <attribute> eq "<value>" on the given
\* attribute, in any spelling of the attribute and of the operator
SingleClauses(spellings) ==
    {Clause(a, o, <<"a">>) : a \in spellings, o \in EqSpellings}

\* filters on the given attribute that are not: another attribute, another operator, a boolean
\* combination of clauses, a clause that lacks a part
NotSingleClauses(attribute, others) ==
    {Clause(a, T_eq, v) : a \in others, v \in ValuesAsked}
    \cup {Clause(attribute, o, v) : o \in {T_ne, T_co}, v \in ValuesAsked}
    \cup {Clause(attribute, T_eq, v) \o <<" ">> \o w \o <<" ">> \o Clause(b, T_eq, v) :
              b \in {attribute} \cup others, w \in {T_and, T_or}, v \in ValuesAsked}
    \cup {attribute \o <<" ">> \o T_eq, attribute}
    \cup {Quoted(v) : v \in ValuesAsked}

\* the list requests that carry a sortBy, sortOrder, attributes or
\* excludedAttributes parameter, with or without a filter the router accepts
WithOtherParameters(filters) ==
    {Query(1, 1, f, sb, so, at, ex) :
        f \in filters,
        sb \in {None, T_userName}, so \in {None, T_ascending},
        at \in {None, T_userName}, ex \in {None, T_members}}
    \ {ListQuery(1, 1, f) : f \in filters}

NotImplementedNothingListed(r) ==
    /\ r.status = 501
    /\ r.scimType = "notImplemented"
    /\ r.body = <<>>
    /\ r.list = <<>>
    /\ r.writes = <<>>

----------------------------------------------------------------------------
(* Specification of the mapper between client payloads, records and wire   *)
(* resources: a SCIM user a client sent is turned into store fields, and a  *)
(* group record is turned into a SCIM group with the users supplied         *)

\* the SCIM users a client can send, with every combination of present and
\* absent name fields
WireUsers ==
    [ id : {NoId},
      userName : {<<"a">>},
      name : {<<>>} \cup { <<SCIMName(f, g, l)>> :
                 f \in {None, <<"F">>}, g \in {None, T_A}, l \in {None, <<"B">>} },
      displayName : {None, <<"D">>},
      active : {TRUE},
      externalId : {None} ]

\* group records, with and without timestamps, with members known and unknown
MapperGroups ==
    [ id : {<<"1">>},
      name : {T_E},
      description : {<<"d">>},
      user_id : {<<"1">>},
      user_ids : SeqsUpTo(MemberIds, MaxMembers),
      created_at : {NoTime, 1},
      updated_at : {NoTime, 2} ]

Receive ==
    /\ mwire = <<>>
    /\ \E scim_user \in WireUsers : mwire' = <<scim_user>>
    /\ UNCHANGED <<users, groups, resp, mu, mdb, aux>>

GroupToWire ==
    /\ resp = NoResponse
    /\ \E base \in BaseUrls :
          resp' = Response("group_to_scim_group", groups[1].id, 200, "",
                           <<group_to_scim_group(groups[1], users, base)>>, NoList, <<>>)
    /\ UNCHANGED <<users, groups, mu, mwire, mdb, aux>>

WireInit ==
    /\ users \in {<<>>, InitUsers}
    /\ groups \in {<<g>> : g \in MapperGroups}
    /\ resp = NoResponse
    /\ MapperIdle
    /\ AuxIdle

WireNext == Receive \/ FromWire \/ GroupToWire

SpecWire == WireInit /\ [][WireNext]_vars

----------------------------------------------------------------------------
(* Properties of the mapper *)

Present(scim_user, field) == scim_user.name # <<>> /\ Truthy(scim_user.name[1][field])

\* the first that is present of name.formatted, displayName, givenName and
\* familyName joined by a space, givenName, familyName, userName
NameByPrecedence(scim_user) ==
    IF Present(scim_user, "formatted") THEN scim_user.name[1].formatted
    ELSE IF Truthy(scim_user.displayName) THEN scim_user.displayName
    ELSE IF Present(scim_user, "givenName") /\ Present(scim_user, "familyName")
         THEN scim_user.name[1].givenName \o <<" ">> \o scim_user.name[1].familyName
    ELSE IF Present(scim_user, "givenName") THEN scim_user.name[1].givenName
    ELSE IF Present(scim_user, "familyName") THEN scim_user.name[1].familyName
    ELSE scim_user.userName

\* a payload a client sent has been turned into store fields
FromClient == mu = NoUser /\ mwire # <<>> /\ mdb # <<>>

\* C16: scim_user_to_db_dict takes the stored name from the first present of
\* name.formatted, displayName, givenName + " " + familyName, givenName alone,
\* familyName alone, userName, for every combination of present and absent
\* name fields
C16_NamePrecedence ==
    FromClient => mdb[1].name = NameByPrecedence(mwire[1])

FamilyNameAlone(scim_user) ==
    /\ Present(scim_user, "familyName")
    /\ ~Present(scim_user, "formatted") /\ ~Present(scim_user, "givenName")
    /\ ~Truthy(scim_user.displayName)

\* the same for every combination but a familyName that stands alone, which
\* resolves to the userName
NamePrecedenceButFamilyNameAlone ==
    FromClient =>
        mdb[1].name = (IF FamilyNameAlone(mwire[1]) THEN mwire[1].userName
                       ELSE NameByPrecedence(mwire[1]))

\* a user record has been turned into a SCIM user
UserOnWire == mu # NoUser /\ mwire # <<>>

\* a group record has been turned into a SCIM group
GroupOnWire == resp.op = "group_to_scim_group" /\ resp.body # <<>>

\* meta of a record created at created_at and modified at updated_at
\* (NoTime: never): lastModified is set whenever created is, and is created
\* when the record was never modified
LastModifiedSet(meta, created_at, updated_at) ==
    created_at # NoTime =>
        /\ meta.lastModified # NoTime
        /\ updated_at = NoTime => meta.lastModified = meta.created

UserLastModifiedDefaults ==
    UserOnWire => LastModifiedSet(mwire[1].meta, mu.created_at, mu.updated_at)

GroupLastModifiedDefaults ==
    GroupOnWire =>
        LastModifiedSet(resp.body[1].meta, groups[1].created_at, groups[1].updated_at)

\* C17: on the wire, a user or a group that has a creation time and no
\* modification time has meta.lastModified equal to meta.created, and
\* meta.lastModified is never null when there is a creation time
C17_LastModifiedDefaultsToCreated ==
    UserLastModifiedDefaults /\ GroupLastModifiedDefaults

\* what the mappers do: lastModified is the modification time, null without one
LastModifiedIsUpdatedAt ==
    /\ UserOnWire =>
          mwire[1].meta.lastModified =
              (IF mu.updated_at = NoTime THEN NoTime ELSE FromTimestamp(mu.updated_at))
    /\ GroupOnWire =>
          resp.body[1].meta.lastModified =
              (IF groups[1].updated_at = NoTime THEN NoTime
               ELSE FromTimestamp(groups[1].updated_at))

\* the member entries of the SCIM group: one per id of user_ids, in order,
\* with the email of the supplied user of that id as display, or the id itself
OneEntryPerId(members, user_ids, supplied) ==
    /\ Len(members) = Len(user_ids)
    /\ \A i \in DOMAIN user_ids :
          /\ members[i].value = user_ids[i]
          /\ IF \E k \in DOMAIN supplied : supplied[k].id = user_ids[i]
             THEN \E k \in DOMAIN supplied :
                     supplied[k].id = user_ids[i] /\ members[i].display = supplied[k].email
             ELSE members[i].display = user_ids[i]

\* C18: group_to_scim_group gives one member entry per id of the group's
\* user_ids, in order: the display of an id found among the supplied users is
\* that user's email, an id not found gives an entry whose value and display
\* are the id; no id is dropped
C18_OneMemberEntryPerId ==
    GroupOnWire => OneEntryPerId(resp.body[1].members, groups[1].user_ids, users)

C18_Witness ==
    /\ GroupOnWire
    /\ users = InitUsers
    /\ groups[1].user_ids = << <<"9">>, <<"1">> >>
    /\ resp.body[1].members[1].display = <<"9">>
    /\ resp.body[1].members[2].display = <<"a">>

----------------------------------------------------------------------------
(* Properties of the Schemas endpoints *)

SameDefinition(a, b) == a.id = b.id /\ a.name = b.name /\ a.attributes = b.attributes

\* the schema a request returns for a resource type: located at the base URL
\* of the request, and the definition the cache already holds when it holds one
ServedFromCache(definition, name, base, r) ==
    /\ definition.id = UrnOf(name)
    /\ definition.name = name
    /\ definition.meta.location = Location(base, "Schemas", UrnOf(name))
    /\ cache[name] # <<>> =>
          /\ SameDefinition(definition, cache[name][1])
          /\ r.computed[name] = computed[name]

\* C19: after any sequence of GET /Schemas and GET /Schemas/{id}, the schema
\* of each resource type has been computed at most once; every later request
\* returns the id, name and attributes of the first, and the meta.location of
\* a response is the base URL of its own request followed by /Schemas/<urn>
C19_SchemaComputedOnce ==
    /\ \A name \in ResourceTypeNames :
          computed[name] = (IF cache[name] = <<>> THEN 0 ELSE 1)
    /\ \A base \in SchemaBaseUrls :
          /\ LET r == get_schemas(cache, computed, base)
             IN  /\ r.resp.status = 200 /\ Len(r.resp.body) = 2
                 /\ ServedFromCache(r.resp.body[1], "User", base, r)
                 /\ ServedFromCache(r.resp.body[2], "Group", base, r)
          /\ \A name \in ResourceTypeNames :
                LET r == get_schema_by_id(cache, computed, UrnOf(name), base)
                IN  /\ r.resp.status = 200 /\ Len(r.resp.body) = 1
                    /\ ServedFromCache(r.resp.body[1], name, base, r)

C19_Witness ==
    /\ resp.op = "get_schema_by_id" /\ resp.status = 200
    /\ computed = [User |-> 1, Group |-> 1]
    /\ resp.body[1].id = USER_SCHEMA_URN
    /\ resp.body[1].meta.location = Location("https://other/scim/v2", "Schemas", USER_SCHEMA_URN)
    /\ cache.Group[1].meta.location = Location("https://idp/scim/v2", "Schemas", GROUP_SCHEMA_URN)

----------------------------------------------------------------------------
(* The dependency of the Users and Groups routers: utils/scim_auth.py.     *)
(* It runs before the handler of every endpoint of both routers.           *)

T_bearer == <<"b", "e", "a", "r", "e", "r">>
T_Bearer == <<"B", "e", "a", "r", "e", "r">>
T_Basic == <<"B", "a", "s", "i", "c">>
T_x == <<"x">>

\* str.partition(" "): the text before the first space and the text after it
Partition(t) ==
    LET k == FirstSpace(t, 1)
    IN  IF k = 0 THEN [head |-> t, tail |-> <<>>]
        ELSE [head |-> SubSeq(t, 1, k - 1), tail |-> SubSeq(t, k + 1, Len(t))]

compare_digest_Always(a, b) == TRUE

\* hmac.compare_digest
compare_digest(a, b) == a = b

\* the status verify_scim_request raises for the value of the Authorization
\* header (None when the request has none), or 0 when it returns True
verify_scim_request(cfg, auth_header) ==
    IF ~cfg.enable_scim THEN 403
    ELSE IF ~Truthy(auth_header) THEN 401
    ELSE LET parts == Partition(auth_header)
             scheme == parts.head
             credentials == parts.tail
         IN  IF Lower(scheme) # T_bearer \/ credentials = <<>> THEN 401
             ELSE IF ~Truthy(cfg.scim_token) THEN 500
             ELSE IF ~compare_digest(cfg.scim_token, credentials) THEN 401
             ELSE 0

\* the HTTPException of the dependency: the handler has not been called
Denied(status) == Response("verify_scim_request", NoId, status, "", <<>>, NoList, <<>>)

OfUsers(r) == [users |-> r.users, groups |-> groups, resp |-> r.resp]
OfGroups(r) == [users |-> users, groups |-> r.groups, resp |-> r.resp]

\* dependencies=[Depends(verify_scim_request)]: the handler result r is the
\* outcome only when the dependency returns
Guarded(auth_header, r) ==
    LET refused == verify_scim_request(config, auth_header)
    IN  IF refused # 0 THEN [users |-> users, groups |-> groups, resp |-> Denied(refused)]
        ELSE r

----------------------------------------------------------------------------
(* Specification of the endpoints behind the dependency: one action per    *)
(* endpoint, each request with an Authorization header or none             *)

Scheme(scheme, credentials) == scheme \o <<" ">> \o credentials

AuthHeaders ==
    { None, <<>>, T_t, T_Bearer, Scheme(T_Bearer, <<>>), Scheme(T_Basic, T_t),
      Scheme(T_Bearer, T_t), Scheme(T_bearer, T_t), Scheme(T_Bearer, T_x) }

\* ENABLE_SCIM on or off; SCIM_TOKEN set, empty or None
Configs == [enable_scim : BOOLEAN, scim_token : {T_t, <<>>, None}]

AuthUserPayload ==
    [ id |-> NoId, userName |-> <<"b">>, name |-> <<SCIMName(None, T_A, <<"B">>)>>,
      displayName |-> None, active |-> TRUE ]

AuthGroupPayload == [id |-> NoId, displayName |-> <<"1">>, members |-> << <<"1">> >>]

AuthUserOps == << PatchOp("replace", T_active, BoolValue(FALSE)) >>

AuthGroupOps == << PatchOp("add", T_members, ListValue(MemberObjs(<< <<"9">> >>))) >>

FreeUserIds == {id \in UserIds : Users_get_user_by_id(users, id) = <<>>}
FreeGroupIds == {id \in GroupIds : Groups_get_group_by_id(groups, id) = <<>>}

\* the outcomes of the requests to each endpoint that carry the header h
PostUsers(h) ==
    {Guarded(h, OfUsers(create_user(users, AuthUserPayload, fresh, TRUE, base))) :
        fresh \in FreeUserIds, base \in BaseUrls}
GetUsersById(h) ==
    {Guarded(h, OfUsers(get_user_by_id(users, id, base))) : id \in UserIds, base \in BaseUrls}
ListUsers(h) ==
    {Guarded(h, OfUsers(get_users(users, ListQuery(1, 1, None), base))) : base \in BaseUrls}
PutUsers(h) ==
    {Guarded(h, OfUsers(replace_user(users, id, AuthUserPayload, TRUE, base))) :
        id \in UserIds, base \in BaseUrls}
PatchUsers(h) ==
    {Guarded(h, OfUsers(patch_user(users, id, AuthUserOps, TRUE, base))) :
        id \in UserIds, base \in BaseUrls}
DeleteUsers(h) ==
    {Guarded(h, OfUsers(delete_user(users, id, TRUE))) : id \in UserIds}
PostGroups(h) ==
    {Guarded(h, OfGroups(create_group(groups, users, AuthGroupPayload, new_id, TRUE, TRUE, base))) :
        new_id \in FreeGroupIds, base \in BaseUrls}
GetGroupsById(h) ==
    {Guarded(h, OfGroups(get_group_by_id(groups, users, id, base))) :
        id \in GroupIds, base \in BaseUrls}
ListGroups(h) ==
    {Guarded(h, OfGroups(get_groups(groups, users, ListQuery(1, 1, None), base))) :
        base \in BaseUrls}
PutGroups(h) ==
    {Guarded(h, OfGroups(replace_group(groups, users, id, AuthGroupPayload, TRUE, base))) :
        id \in GroupIds, base \in BaseUrls}
PatchGroups(h) ==
    {Guarded(h, OfGroups(patch_group(groups, users, id, AuthGroupOps, <<>>, TRUE, base))) :
        id \in GroupIds, base \in BaseUrls}
DeleteGroups(h) ==
    {Guarded(h, OfGroups(delete_group(groups, id, TRUE))) : id \in GroupIds}

Outcome(r) ==
    /\ users' = r.users /\ groups' = r.groups /\ resp' = r.resp
    /\ UNCHANGED <<mu, mwire, mdb, aux>>

AuthCreateUser == \E h \in AuthHeaders : \E r \in PostUsers(h) : Outcome(r)
AuthGetUser == \E h \in AuthHeaders : \E r \in GetUsersById(h) : Outcome(r)
AuthGetUsers == \E h \in AuthHeaders : \E r \in ListUsers(h) : Outcome(r)
AuthReplaceUser == \E h \in AuthHeaders : \E r \in PutUsers(h) : Outcome(r)
AuthPatchUser == \E h \in AuthHeaders : \E r \in PatchUsers(h) : Outcome(r)
AuthDeleteUser == \E h \in AuthHeaders : \E r \in DeleteUsers(h) : Outcome(r)
AuthCreateGroup == \E h \in AuthHeaders : \E r \in PostGroups(h) : Outcome(r)
AuthGetGroup == \E h \in AuthHeaders : \E r \in GetGroupsById(h) : Outcome(r)
AuthGetGroups == \E h \in AuthHeaders : \E r \in ListGroups(h) : Outcome(r)
AuthReplaceGroup == \E h \in AuthHeaders : \E r \in PutGroups(h) : Outcome(r)
AuthPatchGroup == \E h \in AuthHeaders : \E r \in PatchGroups(h) : Outcome(r)
AuthDeleteGroup == \E h \in AuthHeaders : \E r \in DeleteGroups(h) : Outcome(r)

AuthInit ==
    /\ users = InitUsers
    /\ groups = <<InitGroups[2]>>
    /\ resp = NoResponse
    /\ MapperIdle
    /\ config \in Configs
    /\ cache = EmptyCache /\ computed = [User |-> 0, Group |-> 0]
    /\ inflight = NoRequests

AuthNext ==
    \/ AuthCreateUser \/ AuthGetUser \/ AuthGetUsers
    \/ AuthReplaceUser \/ AuthPatchUser \/ AuthDeleteUser
    \/ AuthCreateGroup \/ AuthGetGroup \/ AuthGetGroups
    \/ AuthReplaceGroup \/ AuthPatchGroup \/ AuthDeleteGroup

SpecAuth == AuthInit /\ [][AuthNext]_vars

----------------------------------------------------------------------------
(* Properties of the dependency *)

\* the outcomes of every request to a Users or Groups endpoint with header h
Outcomes(h) ==
    PostUsers(h) \cup GetUsersById(h) \cup ListUsers(h) \cup PutUsers(h)
    \cup PatchUsers(h) \cup DeleteUsers(h) \cup PostGroups(h) \cup GetGroupsById(h)
    \cup ListGroups(h) \cup PutGroups(h) \cup PatchGroups(h) \cup DeleteGroups(h)

\* no header; a header that is no Bearer credential; Bearer credentials
MissingHeaders == {None, <<>>}
NotBearerHeaders == {T_t, T_Bearer, Scheme(T_Bearer, <<>>), Scheme(T_Basic, T_t)}
BearerHeaders(token) == {Scheme(T_Bearer, token), Scheme(T_bearer, token)}

\* the headers that carry a token other than the configured one
WrongTokenHeaders == UNION {BearerHeaders(token) : token \in {T_t, T_x} \ {config.scim_token}}

\* the request ended with this status before its handler ran: nothing was
\* read from or written to the store
ShortCircuits(r, status) ==
    /\ r.resp.op = "verify_scim_request"
    /\ r.resp.status = status
    /\ r.resp.writes = <<>> /\ r.resp.body = <<>>
    /\ r.users = users /\ r.groups = groups

AllShortCircuit(headers, status) ==
    \A h \in headers : \A r \in Outcomes(h) : ShortCircuits(r, status)

\* C20 as the specification states it: with SCIM disabled every request is
\* Forbidden; with SCIM enabled a request without Authorization header, with
\* one that is no Bearer credential or with a token other than the configured
\* one is Unauthorized; the handler does not run
C20_DeniedBeforeHandler ==
    IF ~config.enable_scim THEN AllShortCircuit(AuthHeaders, 403)
    ELSE AllShortCircuit(MissingHeaders \cup NotBearerHeaders \cup WrongTokenHeaders, 401)

\* C20: with SCIM disabled every request is Forbidden, whatever its token;
\* with SCIM enabled a request without Authorization header or with one that
\* is no Bearer credential is Unauthorized; one with a Bearer token is
\* Unauthorized when a token is configured and differs from it, and an
\* internal server error (500) when no token is configured; in all these
\* cases the handler does not run and the store is not touched
C20_DeniedBeforeHandlerPerConfig ==
    IF ~config.enable_scim THEN AllShortCircuit(AuthHeaders, 403)
    ELSE /\ AllShortCircuit(MissingHeaders \cup NotBearerHeaders, 401)
         /\ IF Truthy(config.scim_token)
            THEN /\ AllShortCircuit(WrongTokenHeaders, 401)
                 /\ \A h \in BearerHeaders(config.scim_token) : \A r \in Outcomes(h) :
                       r.resp.op # "verify_scim_request"
            ELSE AllShortCircuit(WrongTokenHeaders, 500)

C20_Witness ==
    /\ config = Configured
    /\ resp.op = "verify_scim_request" /\ resp.status = 401
    /\ Len(users) = 2

----------------------------------------------------------------------------
(* Properties of the store calls *)

\* worked is the outcome of a request when its store call succeeds, failed the
\* outcome of the same request when the call returns a falsy value: where the
\* call is made, the failure ends the request with InternalServerError
FailureEnds(worked, failed) ==
    worked.resp.writes # <<>> =>
        failed.resp.status = 500 /\ failed.resp.scimType = "internalServerError"

CreateUserFailureEnds ==
    \A p \in UserPayloads, fresh \in UserIds, base \in BaseUrls :
        (/\ Truthy(p.userName)
         /\ IF Truthy(p.id) THEN fresh = p.id ELSE Users_get_user_by_id(users, fresh) = <<>>)
            => FailureEnds(create_user(users, p, fresh, TRUE, base),
                           create_user(users, p, fresh, FALSE, base))

ReplaceUserFailureEnds ==
    \A id \in UserIds, p \in UserPayloads, base \in BaseUrls :
        Truthy(p.userName)
            => FailureEnds(replace_user(users, id, p, TRUE, base),
                           replace_user(users, id, p, FALSE, base))

PatchUserFailureEnds ==
    \A id \in UserIds, ops \in UserPatchRequests, base \in BaseUrls :
        FailureEnds(patch_user(users, id, ops, TRUE, base),
                    patch_user(users, id, ops, FALSE, base))

DeleteUserFailureEnds ==
    \A id \in UserIds :
        FailureEnds(delete_user(users, id, TRUE), delete_user(users, id, FALSE))

InsertGroupFailureEnds ==
    \A p \in GroupPayloads, new_id \in GroupIds, ok_update \in BOOLEAN, base \in BaseUrls :
        (p.id = NoId /\ Groups_get_group_by_id(groups, new_id) = <<>>)
            => FailureEnds(create_group(groups, users, p, new_id, TRUE, ok_update, base),
                           create_group(groups, users, p, new_id, FALSE, ok_update, base))

\* the update_group_by_id that assigns the members of a created group
AssignMembersFailureEnds ==
    \A p \in GroupPayloads, new_id \in GroupIds, base \in BaseUrls :
        LET worked == create_group(groups, users, p, new_id, TRUE, TRUE, base)
        IN  (/\ p.id = NoId /\ Groups_get_group_by_id(groups, new_id) = <<>>
             /\ Len(worked.resp.writes) = 2)
                => FailureEnds(worked, create_group(groups, users, p, new_id, TRUE, FALSE, base))

ReplaceGroupFailureEnds ==
    \A id \in GroupIds, p \in GroupPayloads, base \in BaseUrls :
        Truthy(p.displayName)
            => FailureEnds(replace_group(groups, users, id, p, TRUE, base),
                           replace_group(groups, users, id, p, FALSE, base))

PatchGroupFailureEnds ==
    \A id \in GroupIds, ops \in GroupPatchRequests, order \in SetOrders, base \in BaseUrls :
        FailureEnds(patch_group(groups, users, id, ops, order, TRUE, base),
                    patch_group(groups, users, id, ops, order, FALSE, base))

DeleteGroupFailureEnds ==
    \A id \in GroupIds :
        FailureEnds(delete_group(groups, id, TRUE), delete_group(groups, id, FALSE))

\* C21: whenever a store call whose result is required returns a falsy value
\* (user creation, update_user_by_id in PUT and PATCH, update_group_by_id in
\* PUT, in PATCH and in the member assignment of a group creation, a delete),
\* the request ends with InternalServerError; no failure is answered with a
\* success status
C21_StoreFailureIsInternalServerError ==
    /\ CreateUserFailureEnds /\ ReplaceUserFailureEnds
    /\ PatchUserFailureEnds /\ DeleteUserFailureEnds
    /\ InsertGroupFailureEnds /\ AssignMembersFailureEnds
    /\ ReplaceGroupFailureEnds /\ PatchGroupFailureEnds /\ DeleteGroupFailureEnds

\* what the code does: the failures of user creation, of the PATCH updates, of
\* the group insertion and of the deletes end the request with
\* InternalServerError
StoreFailureEndsWhereNotRecovered ==
    /\ CreateUserFailureEnds /\ PatchUserFailureEnds /\ DeleteUserFailureEnds
    /\ InsertGroupFailureEnds /\ PatchGroupFailureEnds /\ DeleteGroupFailureEnds

\* what the code does with the other three: the failed update of a PUT and the
\* failed member assignment of a creation are answered with the success status
FailureRecovered(worked, failed) ==
    worked.resp.writes # <<>> => failed.resp.status = worked.resp.status

StoreFailureRecovered ==
    \A base \in BaseUrls :
        /\ \A id \in UserIds, p \in UserPayloads :
              Truthy(p.userName)
                  => FailureRecovered(replace_user(users, id, p, TRUE, base),
                                      replace_user(users, id, p, FALSE, base))
        /\ \A id \in GroupIds, p \in GroupPayloads :
              Truthy(p.displayName)
                  => FailureRecovered(replace_group(groups, users, id, p, TRUE, base),
                                      replace_group(groups, users, id, p, FALSE, base))
        /\ \A p \in GroupPayloads, new_id \in GroupIds :
              LET worked == create_group(groups, users, p, new_id, TRUE, TRUE, base)
              IN  (/\ p.id = NoId /\ Groups_get_group_by_id(groups, new_id) = <<>>
                   /\ Len(worked.resp.writes) = 2)
                      => FailureRecovered(worked,
                             create_group(groups, users, p, new_id, TRUE, FALSE, base))

----------------------------------------------------------------------------
(* Specification of the PUT and PATCH endpoints of one user and one group,  *)
(* with requests that pass every check and requests that are refused        *)

\* the second user owns the email b and is only read
TwoUsers ==
    << [id |-> <<"1">>, email |-> <<"a">>, name |-> T_AB, role |-> "admin",
        created_at |-> 1, updated_at |-> 1],
       [id |-> <<"2">>, email |-> <<"b">>, name |-> T_AB, role |-> "user",
        created_at |-> 1, updated_at |-> 1] >>

UserTargets == {<<"1">>}

UserUpdateOps ==
    { PatchOp("replace", T_active, BoolValue(FALSE)),
      PatchOp("replace", T_userName, StrValue(<<"c">>)),
      PatchOp("replace", T_userName, StrValue(<<"b">>)),
      PatchOp("replace", T_active, StrValue(T_A)) }

UserUpdateRequests == SeqsUpTo(UserUpdateOps, MaxOps)

UserUpdatePayloads ==
    [ id : {NoId, <<"2">>},
      userName : {<<"a">>, <<"b">>},
      name : NamePayloads,
      displayName : {None},
      active : {TRUE} ]

GroupUpdateOps ==
    { PatchOp("replace", T_displayName, StrValue(<<"1">>)),
      PatchOp("replace", T_displayName, StrValue(T_e)),
      PatchOp("add", T_members, ListValue(MemberObjs(<< <<"9">> >>))),
      PatchOp("replace", T_members, ListValue(<<MemberNoValue>>)) }

GroupUpdateRequests == SeqsUpTo(GroupUpdateOps, MaxOps)

GroupUpdatePayloads ==
    [ id : {NoId, <<"2">>},
      displayName : {T_E, T_e},
      members : {<< <<"1">> >>} ]

PutUser ==
    \E id \in UserTargets, p \in UserUpdatePayloads, base \in BaseUrls :
        /\ Apply(replace_user(users, id, p, TRUE, base))
        /\ UNCHANGED <<groups, mu, mwire, mdb, aux>>

PatchUserOps ==
    \E id \in UserTargets, ops \in UserUpdateRequests, base \in BaseUrls :
        /\ LET r == patch_user(users, id, ops, TRUE, base)
           IN  users' = r.users /\ resp' = [r.resp EXCEPT !.asked = Asked(ops)]
        /\ UNCHANGED <<groups, mu, mwire, mdb, aux>>

PutGroup ==
    \E id \in GroupTargets, p \in GroupUpdatePayloads, base \in BaseUrls :
        /\ GApply(replace_group(groups, users, id, p, TRUE, base))
        /\ UNCHANGED <<users, mu, mwire, mdb, aux>>

PatchGroupOps ==
    \E id \in GroupTargets, ops \in GroupUpdateRequests, order \in SetOrders, base \in BaseUrls :
        /\ LET r == patch_group(groups, users, id, ops, order, TRUE, base)
           IN  groups' = r.groups /\ resp' = [r.resp EXCEPT !.asked = Asked(ops)]
        /\ UNCHANGED <<users, mu, mwire, mdb, aux>>

UpdatesInit ==
    /\ users = TwoUsers
    /\ groups = InitGroups
    /\ resp = NoResponse
    /\ MapperIdle
    /\ AuxIdle

UpdatesNext == PutUser \/ PatchUserOps \/ PutGroup \/ PatchGroupOps

SpecUpdates == UpdatesInit /\ [][UpdatesNext]_vars

----------------------------------------------------------------------------
(* Properties of the PUT and PATCH endpoints *)

\* the ids of the requests: the stored ones and one that no record has
IdsAsked == UserIds \cup {<<"3">>}

RefusedStatuses == {400, 404, 409, 501}

\* a refused request has called no store method and the store is as before
UnwrittenIfRefused(r, after, before) ==
    r.status \in RefusedStatuses => r.writes = <<>> /\ after = before

\* the request ends with this error and nothing is written
RefusedWith(r, status, after, before) ==
    r.status = status /\ r.writes = <<>> /\ after = before

UserPayloadsAsked ==
    [ id : {NoId, <<"1">>, <<"2">>},
      userName : Emails,
      name : NamePayloads,
      displayName : {None},
      active : BOOLEAN ]

GroupPayloadsAsked ==
    [ id : {NoId, <<"1">>, <<"2">>},
      displayName : {T_E, T_e, <<"1">>},
      members : {NoneList, << <<"9">> >>} ]

UserOpsAsked ==
    { PatchOp("replace", T_active, BoolValue(FALSE)),
      PatchOp("replace", T_userName, StrValue(<<"c">>)),
      PatchOp("replace", T_userName, StrValue(<<"b">>)),
      PatchOp("replace", T_active, StrValue(T_A)) }

GroupOpsAsked ==
    { PatchOp("replace", T_displayName, StrValue(<<"1">>)),
      PatchOp("add", T_members, ListValue(MemberObjs(<< <<"9">> >>))),
      PatchOp("replace", T_displayName, StrValue(T_e)),
      PatchOp("add", T_members, ListValue(<<MemberNoValue>>)) }

\* one of the orders in which list(set) may enumerate the member ids
AnyOrder == CHOOSE q \in SetOrders : TRUE

\* operations that pass every check
UserOpsValid ==
    { PatchOp("replace", T_active, BoolValue(b)) : b \in BOOLEAN }
    \cup { PatchOp("replace", T_userName, StrValue(e)) :
              e \in {x \in Emails : Users_get_user_by_email(users, x) = <<>>} }

GroupOpsValid ==
    { PatchOp("replace", T_displayName, StrValue(n)) :
          n \in {x \in NamesAsked : ~NameExists(groups, x)} }
    \cup { PatchOp("add", T_members, ListValue(MemberObjs(<< <<"9">> >>))),
           PatchOp("replace", T_members, ListValue(MemberObjs(<< <<"1">> >>))),
           PatchOp("remove", RemovePath(<<"1">>), NullValue) }

Refusal(op, status) == [op |-> op, status |-> status]

\* operations that a check refuses, each with the status of its error
UserOpsRefused(id) ==
    { Refusal(PatchOp("replace", T_userName, StrValue(e)), 409) :
          e \in {x \in Emails : OwnedByOther(users, x, id)} }
    \cup { Refusal(PatchOp("replace", T_active, StrValue(T_A)), 400),
           Refusal(PatchOp("replace", T_userName, IntValue(1)), 400),
           Refusal(PatchOp("replace", T_displayName, StrValue(T_A)), 501),
           Refusal(PatchOp("add", T_active, BoolValue(TRUE)), 501) }

GroupOpsRefused(id) ==
    { Refusal(PatchOp("replace", T_displayName, StrValue(n)), 409) :
          n \in {x \in NamesAsked : NameOfOther(groups, x, id)} }
    \cup { Refusal(PatchOp("add", T_members, ListValue(<<MemberNoValue>>)), 400),
           Refusal(PatchOp("replace", T_members, ListValue(<<MemberObj(<<"9">>), MemberNoDict>>)), 400),
           Refusal(PatchOp("add", T_members, NullValue), 400),
           Refusal(PatchOp("remove", RemovePathUnquoted(<<"1">>), NullValue), 400),
           Refusal(PatchOp("remove", T_members, NullValue), 501),
           Refusal(PatchOp("replace", T_active, BoolValue(TRUE)), 501) }

\* C22: in the PUT and PATCH handlers of users and groups every check of the
\* request comes before the first store write: a request that ends in
\* BadRequest, NotFound, Conflict or NotImplemented has called no store method
\* and leaves the store as it was, and a PATCH whose operation is refused ends
\* with that error, nothing written, also when the operations before it were
\* valid
C22_ChecksBeforeWrites ==
    \A base \in BaseUrls :
        /\ \A id \in IdsAsked, p \in UserPayloadsAsked :
              LET r == replace_user(users, id, p, TRUE, base)
              IN  UnwrittenIfRefused(r.resp, r.users, users)
        /\ \A id \in IdsAsked, p \in GroupPayloadsAsked :
              LET r == replace_group(groups, users, id, p, TRUE, base)
              IN  UnwrittenIfRefused(r.resp, r.groups, groups)
        /\ \A id \in IdsAsked, ops \in SeqsUpTo(UserOpsAsked, MaxOps) :
              LET r == patch_user(users, id, ops, TRUE, base)
              IN  UnwrittenIfRefused(r.resp, r.users, users)
        /\ \A id \in IdsAsked, ops \in SeqsUpTo(GroupOpsAsked, MaxOps) :
              LET r == patch_group(groups, users, id, ops, AnyOrder, TRUE, base)
              IN  UnwrittenIfRefused(r.resp, r.groups, groups)
        /\ \A id \in UserIds :
              \A valid \in UserOpsValid, refused \in UserOpsRefused(id) :
                  LET r == patch_user(users, id, <<valid, refused.op>>, TRUE, base)
                  IN  Users_get_user_by_id(users, id) # <<>>
                          => RefusedWith(r.resp, refused.status, r.users, users)
        /\ \A id \in GroupIds, order \in SetOrders :
              \A valid \in GroupOpsValid, refused \in GroupOpsRefused(id) :
                  LET r == patch_group(groups, users, id, <<valid, refused.op>>, order, TRUE, base)
                  IN  Groups_get_group_by_id(groups, id) # <<>>
                          => RefusedWith(r.resp, refused.status, r.groups, groups)

\* a PATCH of several operations was refused with Conflict after the user had
\* been given another email
C22_Witness ==
    /\ resp.op = "patch_user" /\ resp.status = 409 /\ resp.asked = <<>>
    /\ resp.writes = <<>>
    /\ Users_get_user_by_id(users, resp.id)[1].email = <<"c">>

\* the user and the group a sequence of well-typed operations leaves when each
\* operation is applied to what the operations before it left
RECURSIVE FoldUser(_, _, _)
FoldUser(u, Operations, i) ==
    IF i > Len(Operations) THEN u
    ELSE LET op == Operations[i]
         IN  FoldUser(IF Lower(op.path) = T_active
                      THEN [u EXCEPT !.role = PatchedRole(op.value.v)]
                      ELSE [u EXCEPT !.email = op.value.v],
                      Operations, i + 1)

RECURSIVE FoldGroup(_, _, _)
FoldGroup(g, Operations, i) ==
    IF i > Len(Operations) THEN g
    ELSE LET op == Operations[i]
         IN  FoldGroup(CASE op.op = "remove" ->
                              [g EXCEPT !.members = @ \ {Split(op.path, "\"")[2]}]
                         [] op.op = "add" ->
                              [g EXCEPT !.members = @ \cup MemberValues(op.value.v)]
                         [] Lower(op.path) = T_members ->
                              [g EXCEPT !.members = MemberValues(op.value.v)]
                         [] OTHER -> [g EXCEPT !.name = op.value.v],
                       Operations, i + 1)

UserOpsFolded ==
    { PatchOp("replace", T_active, BoolValue(b)) : b \in BOOLEAN }
    \cup { PatchOp("replace", T_userName, StrValue(e)) : e \in Emails }

GroupNameOpsFolded ==
    { PatchOp("replace", T_displayName, StrValue(n)) : n \in NamesAsked }

GroupMemberOpsFolded ==
    { PatchOp("add", T_members, ListValue(MemberObjs(<< <<"9">> >>))),
      PatchOp("replace", T_members, ListValue(MemberObjs(<< <<"1">> >>))),
      PatchOp("remove", RemovePath(<<"1">>), NullValue) }

\* the stored user after a successful PATCH is the fold of its operations
UserIsFold(ops, id, base) ==
    LET r == patch_user(users, id, ops, TRUE, base)
        before == Users_get_user_by_id(users, id)
        after == Users_get_user_by_id(r.users, id)
        fold == FoldUser(before[1], ops, 1)
    IN  (before # <<>> /\ r.resp.status = 200)
            => after[1].email = fold.email /\ after[1].role = fold.role

GroupIsFold(ops, id, order, base) ==
    LET r == patch_group(groups, users, id, ops, order, TRUE, base)
        before == Groups_get_group_by_id(groups, id)
        after == Groups_get_group_by_id(r.groups, id)
        fold == FoldGroup([name |-> before[1].name, members |-> Range(before[1].user_ids)],
                          ops, 1)
    IN  (before # <<>> /\ r.resp.status = 200)
            => after[1].name = fold.name /\ Range(after[1].user_ids) = fold.members

\* C23: the operations of one PATCH request are applied in wire order, each
\* to what the operations before it left: the stored resource afterwards is
\* the fold of the operations over the resource as it was; of several replace
\* operations on userName or displayName the last one decides the stored
\* value, also when its value is the one the resource had before the request
C23_OperationsFoldInOrder ==
    \A base \in BaseUrls :
        /\ \A id \in UserIds, ops \in SeqsUpTo(UserOpsFolded, MaxOps) :
              UserIsFold(ops, id, base)
        /\ \A id \in GroupIds, order \in SetOrders,
              ops \in SeqsUpTo(GroupNameOpsFolded \cup GroupMemberOpsFolded, MaxOps) :
              GroupIsFold(ops, id, order, base)

\* what the code does: the operations on members and on active fold in order
MembersAndActiveFoldInOrder ==
    \A base \in BaseUrls :
        /\ \A id \in UserIds,
              ops \in SeqsUpTo({o \in UserOpsFolded : o.path = T_active}, MaxOps) :
              UserIsFold(ops, id, base)
        /\ \A id \in GroupIds, order \in SetOrders,
              ops \in SeqsUpTo(GroupMemberOpsFolded, MaxOps) :
              GroupIsFold(ops, id, order, base)

\* what the code does with userName and displayName: a replace whose value is
\* the value stored before the request is skipped, so the fold holds for the
\* requests that do not go back to that value
GoesBack(ops, path, value) ==
    \E i \in DOMAIN ops : Lower(ops[i].path) = path /\ ops[i].value.v = value

ScalarsFoldUnlessBack ==
    \A base \in BaseUrls :
        /\ \A id \in UserIds, ops \in SeqsUpTo(UserOpsFolded, MaxOps) :
              LET before == Users_get_user_by_id(users, id)
              IN  (before # <<>> /\ ~GoesBack(ops, T_username, before[1].email))
                      => UserIsFold(ops, id, base)
        /\ \A id \in GroupIds, order \in SetOrders,
              ops \in SeqsUpTo(GroupNameOpsFolded \cup GroupMemberOpsFolded, MaxOps) :
              LET before == Groups_get_group_by_id(groups, id)
              IN  (before # <<>> /\ ~GoesBack(ops, T_displayname, before[1].name))
                      => GroupIsFold(ops, id, order, base)

\* and a request that goes back to it stores the value of the replace before
LastReplaceOfStoredValueIsSkipped ==
    \A base \in BaseUrls, id \in UserIds, e \in Emails :
        LET before == Users_get_user_by_id(users, id)
            r == patch_user(users, id,
                            << PatchOp("replace", T_userName, StrValue(e)),
                               PatchOp("replace", T_userName, StrValue(before[1].email)) >>,
                            TRUE, base)
        IN  (before # <<>> /\ r.resp.status = 200)
                => Users_get_user_by_id(r.users, id)[1].email = e

GroupRequestsFolded ==
    SeqsUpTo({ PatchOp("replace", T_displayName, StrValue(<<"1">>)),
               PatchOp("add", T_members, ListValue(MemberObjs(<< <<"9">> >>))),
               PatchOp("remove", RemovePath(<<"1">>), NullValue) }, MaxOps)

\* the successful PATCH request r changes both the name and the members of
\* the group: the fold of its operations differs from the group in both
ChangesNameAndMembers(r, before, fold) ==
    /\ before # <<>>
    /\ fold.name # before[1].name
    /\ fold.members # Range(before[1].user_ids)
    /\ r.resp.status = 200

AnsweredWithoutWrite(r, body, after, before) ==
    /\ r.status = 200 /\ r.body = body
    /\ r.writes = <<>>
    /\ after = before

UserUntouched(ops, id, base) ==
    LET r == patch_user(users, id, ops, TRUE, base)
        u == Users_get_user_by_id(users, id)
    IN  AnsweredWithoutWrite(r.resp, <<user_to_scim_user(u[1], base)>>, r.users, users)

GroupUntouched(ops, id, order, base) ==
    LET r == patch_group(groups, users, id, ops, order, TRUE, base)
        g == Groups_get_group_by_id(groups, id)
    IN  AnsweredWithoutWrite(r.resp, GroupBody(users, g[1], base), r.groups, groups)

\* replace active with the value the user has
ActiveKept ==
    \A base \in BaseUrls, id \in UserIds :
        LET u == Users_get_user_by_id(users, id)
        IN  u # <<>> =>
                UserUntouched(<<PatchOp("replace", T_active, BoolValue(ActiveOf(u[1].role)))>>,
                              id, base)

\* replace userName with the email the user has
UserNameKept ==
    \A base \in BaseUrls, id \in UserIds :
        LET u == Users_get_user_by_id(users, id)
        IN  u # <<>> =>
                UserUntouched(<<PatchOp("replace", T_userName, StrValue(u[1].email))>>, id, base)

\* replace displayName with the name the group has
DisplayNameKept ==
    \A base \in BaseUrls, id \in GroupIds, order \in SetOrders :
        LET g == Groups_get_group_by_id(groups, id)
        IN  g # <<>> =>
                GroupUntouched(<<PatchOp("replace", T_displayName, StrValue(g[1].name))>>,
                               id, order, base)

\* replace members with the members the group has
MembersKept ==
    \A base \in BaseUrls, id \in GroupIds, order \in SetOrders :
        LET g == Groups_get_group_by_id(groups, id)
        IN  g # <<>> =>
                GroupUntouched(<<PatchOp("replace", T_members,
                                         ListValue(MemberObjs(g[1].user_ids)))>>,
                               id, order, base)

\* add of an id that is a member
MemberAddedAgain ==
    \A base \in BaseUrls, id \in GroupIds, order \in SetOrders, m \in MemberIds :
        LET g == Groups_get_group_by_id(groups, id)
        IN  (g # <<>> /\ m \in Range(g[1].user_ids)) =>
                GroupUntouched(<<PatchOp("add", T_members, ListValue(MemberObjs(<<m>>)))>>,
                               id, order, base)

\* remove of an id that is no member
AbsentMemberRemoved ==
    \A base \in BaseUrls, id \in GroupIds, order \in SetOrders, m \in MemberIds :
        LET g == Groups_get_group_by_id(groups, id)
        IN  (g # <<>> /\ m \notin Range(g[1].user_ids)) =>
                GroupUntouched(<<PatchOp("remove", RemovePath(m), NullValue)>>, id, order, base)

\* C25: a PATCH request whose operations leave every attribute equal to its
\* stored value (replace active with the current value, replace userName or
\* displayName with the current value, replace members with the current
\* members, add of ids that are members, remove of an absent id) issues no
\* store write and returns success with the current representation
C25_NoOpPatchIssuesNoWrite ==
    /\ ActiveKept /\ UserNameKept
    /\ DisplayNameKept /\ MembersKept /\ MemberAddedAgain /\ AbsentMemberRemoved

\* what the code does: the scalar replaces and the remove issue no write
NoOpPatchOfNameOrRemovalIssuesNoWrite ==
    UserNameKept /\ DisplayNameKept /\ AbsentMemberRemoved

\* and replace active, replace members and add members always issue one
NoOpPatchOfActiveOrMembersIsWritten ==
    \A base \in BaseUrls :
        /\ \A id \in UserIds :
              LET u == Users_get_user_by_id(users, id)
                  active == ActiveOf(u[1].role)
                  r == patch_user(users, id,
                                  <<PatchOp("replace", T_active, BoolValue(active))>>, TRUE, base)
              IN  u # <<>> =>
                      r.resp.writes = <<Call("update_user_by_id", id,
                                             [role |-> PatchedRole(active)])>>
        /\ \A id \in GroupIds, order \in SetOrders :
              LET g == Groups_get_group_by_id(groups, id)
                  members == Range(g[1].user_ids)
                  written == <<Call("update_group_by_id", id,
                                    [user_ids |-> ListOfSet(members, order)])>>
              IN  g # <<>> =>
                      /\ patch_group(groups, users, id,
                             <<PatchOp("replace", T_members, ListValue(MemberObjs(g[1].user_ids)))>>,
                             order, TRUE, base).resp.writes = written
                      /\ \A m \in members :
                            patch_group(groups, users, id,
                                <<PatchOp("add", T_members, ListValue(MemberObjs(<<m>>)))>>,
                                order, TRUE, base).resp.writes = written

NoRepeat(q) == \A i, j \in DOMAIN q : i # j => q[i] # q[j]

\* every user_ids list among the calls of a response names each id once
IdsHandedOnce(r) ==
    \A k \in DOMAIN r.writes :
        "user_ids" \in DOMAIN r.writes[k].fields => NoRepeat(r.writes[k].fields.user_ids)

\* a membership was handed to the store
IdsHanded(r) ==
    \E k \in DOMAIN r.writes : "user_ids" \in DOMAIN r.writes[k].fields

T_n == <<"n">>

\* payloads of POST and PUT with every member list, those that repeat an id included
MemberPayloads == [id : {NoId}, displayName : {T_n}, members : MemberLists]

PostHandsIdsOnce ==
    \A base \in BaseUrls, p \in MemberPayloads :
        IdsHandedOnce(create_group(groups, users, p, <<"3">>, TRUE, TRUE, base).resp)

PutHandsIdsOnce ==
    \A base \in BaseUrls, p \in MemberPayloads, id \in GroupIds :
        IdsHandedOnce(replace_group(groups, users, id, p, TRUE, base).resp)

PatchHandsIdsOnce ==
    \A base \in BaseUrls, l \in MemberLists, path \in {"replace", "add"},
       id \in GroupIds, order \in SetOrders :
        LET r == patch_group(groups, users, id,
                             <<PatchOp(path, T_members, ListValue(MemberObjs(l)))>>,
                             order, TRUE, base).resp
        IN  /\ IdsHandedOnce(r)
            /\ (l # <<>> /\ Groups_get_group_by_id(groups, id) # <<>>) => IdsHanded(r)

\* C26: the user_ids handed to the store by POST /Groups, PUT /Groups/{id}
\* and PATCH replace/add members hold each member id at most once, also when
\* the request repeats an id
C26_MemberIdsHandedOnce ==
    PostHandsIdsOnce /\ PutHandsIdsOnce /\ PatchHandsIdsOnce

\* what the code does: POST and PUT hand on the list as it was sent
PostAndPutHandListAsSent ==
    \A base \in BaseUrls, p \in MemberPayloads :
        /\ LET r == create_group(groups, users, p, <<"3">>, TRUE, TRUE, base)
           IN  (r.resp.status = 201 /\ p.members # <<>>) =>
                     /\ r.resp.writes[2] = Call("update_group_by_id", <<"3">>,
                                                [user_ids |-> p.members])
                     /\ Groups_get_group_by_id(r.groups, <<"3">>)[1].user_ids = p.members
        /\ \A id \in GroupIds :
              LET r == replace_group(groups, users, id, p, TRUE, base)
              IN  Groups_get_group_by_id(groups, id) # <<>> =>
                     /\ r.resp.writes[1].fields.user_ids = p.members
                     /\ Groups_get_group_by_id(r.groups, id)[1].user_ids = p.members

\* member lists with an element that is no object or has no "value" key
MalformedLists ==
    { ListValue(<<MemberNoDict>>),
      ListValue(<<MemberNoValue>>),
      ListValue(<<MemberObj(<<"9">>), MemberNoDict>>),
      ListValue(<<MemberObj(<<"9">>), MemberNoValue>>) }

\* values that are no lists: a string and the empty string, numbers, booleans
MalformedScalars ==
    { StrValue(T_A), StrValue(<<>>), IntValue(1), IntValue(0), BoolValue(TRUE), BoolValue(FALSE) }

MemberOps == {"replace", "add"}

\* the PATCH of one members operation with the value
MembersPatched(kind, value, id, order, base) ==
    patch_group(groups, users, id, <<PatchOp(kind, T_members, value)>>, order, TRUE, base)

\* the operation fails with BadRequest and the stored membership is as before
MalformedRefused(kind, value) ==
    \A base \in BaseUrls, id \in GroupIds, order \in SetOrders :
        Groups_get_group_by_id(groups, id) # <<>> =>
            LET r == MembersPatched(kind, value, id, order, base)
            IN  /\ r.resp.status = 400
                /\ r.resp.writes = <<>>
                /\ r.groups = groups

\* C27: a PATCH /Groups replace members or add members operation whose value
\* holds a malformed member (an element that is no object, an object without
\* a value key, or a value that is no list of such objects) fails with
\* BadRequest and the stored membership is unchanged
C27_MalformedMembersRefused ==
    \A kind \in MemberOps, value \in MalformedLists \cup MalformedScalars :
        MalformedRefused(kind, value)

\* what the code does: malformed elements are refused by both operations,
\* add refuses every value that is no list, replace refuses a string
MalformedElementsAndAddRefused ==
    /\ \A kind \in MemberOps, value \in MalformedLists : MalformedRefused(kind, value)
    /\ \A value \in MalformedScalars : MalformedRefused("add", value)
    /\ MalformedRefused("replace", StrValue(T_A))

\* replace with a falsy value that is no list empties the membership
ReplaceWithFalsyValueClears ==
    \A base \in BaseUrls, id \in GroupIds, order \in SetOrders,
       value \in {StrValue(<<>>), IntValue(0), BoolValue(FALSE)} :
        Groups_get_group_by_id(groups, id) # <<>> =>
            LET r == MembersPatched("replace", value, id, order, base)
            IN  /\ r.resp.status = 200
                /\ r.resp.writes = <<Call("update_group_by_id", id, [user_ids |-> <<>>])>>
                /\ Groups_get_group_by_id(r.groups, id)[1].user_ids = <<>>

\* replace with a number or with true ends in an error that is not a SCIM error
ReplaceWithNumberIsUnhandled ==
    \A base \in BaseUrls, id \in GroupIds, order \in SetOrders,
       value \in {IntValue(1), BoolValue(TRUE)} :
        Groups_get_group_by_id(groups, id) # <<>> =>
            LET r == MembersPatched("replace", value, id, order, base)
            IN  /\ r.resp = UnhandledError("patch_group", id, <<>>)
                /\ r.groups = groups

\* values of displayName that are no strings: number, boolean, null, list
NonStringValues ==
    {IntValue(1), IntValue(0), BoolValue(TRUE), BoolValue(FALSE), NullValue, ListValue(<<>>)}

DisplayNamePatched(value, id, order, base) ==
    patch_group(groups, users, id, <<PatchOp("replace", T_displayName, value)>>, order, TRUE, base)

\* C28: PATCH /Groups replace displayName with a value that is no string is
\* rejected with BadRequest and the name of the group is not written
C28_DisplayNameMustBeString ==
    \A base \in BaseUrls, id \in GroupIds, order \in SetOrders, value \in NonStringValues :
        Groups_get_group_by_id(groups, id) # <<>> =>
            LET r == DisplayNamePatched(value, id, order, base)
            IN  /\ r.resp.status = 400
                /\ r.resp.writes = <<>>
                /\ r.groups = groups

\* what the code does: the text str() makes of the value is taken as the new
\* name, checked against the other groups and written
DisplayNameIsConvertedToText ==
    \A base \in BaseUrls, id \in GroupIds, order \in SetOrders, value \in NonStringValues :
        LET g == Groups_get_group_by_id(groups, id)
            r == DisplayNamePatched(value, id, order, base)
            new_name == PyStr(value)
        IN  g # <<>> =>
                IF new_name = g[1].name
                THEN r.resp.status = 200 /\ r.resp.writes = <<>>
                ELSE IF NameTakenByOther(groups, new_name, id)
                THEN r.resp.status = 409 /\ r.resp.writes = <<>>
                ELSE /\ r.resp.status = 200
                     /\ r.resp.writes = <<Call("update_group_by_id", id, [name |-> new_name])>>
                     /\ Groups_get_group_by_id(r.groups, id)[1].name = new_name

\* values of active that are no booleans, values of userName that are no strings
NonBooleanValues == {StrValue(T_A), StrValue(<<>>), IntValue(1), IntValue(0), NullValue, ListValue(<<>>)}
NonTextValues == {BoolValue(TRUE), BoolValue(FALSE), IntValue(1), NullValue, ListValue(<<>>)}

WronglyTypedOps ==
    {PatchOp("replace", T_active, v) : v \in NonBooleanValues}
    \cup {PatchOp("replace", T_userName, v) : v \in NonTextValues}

\* operations that may come before the wrongly typed one, and after it
UserOpsPreceding ==
    { <<>>,
      <<PatchOp("replace", T_active, BoolValue(FALSE))>>,
      <<PatchOp("replace", T_userName, StrValue(<<"c">>))>>,
      <<PatchOp("replace", T_userName, StrValue(<<"b">>))>> }

UserOpsFollowing == { <<>>, <<PatchOp("replace", T_active, BoolValue(TRUE))>> }

\* C29: PATCH /Users replace active with a value that is no boolean, or
\* replace userName with a value that is no string, fails with BadRequest
\* (scimType invalidValue) and issues no store write, so role and email are
\* unchanged; operations of the request that precede it without failing, and
\* any that follow, change nothing about this
C29_WrongTypeIsBadRequest ==
    \A base \in BaseUrls, id \in UserIds, bad \in WronglyTypedOps,
       first \in UserOpsPreceding, rest \in UserOpsFollowing :
        LET u == Users_get_user_by_id(users, id)
            r == patch_user(users, id, first \o <<bad>> \o rest, TRUE, base)
            passes == patch_user_loop(users, u[1], first, 1, EmptyDict).error = ""
        IN  (u # <<>> /\ passes) =>
                /\ r.resp = SCIMBadRequestError("patch_user", id, <<>>)
                /\ r.resp.status = 400 /\ r.resp.scimType = "invalidValue"
                /\ r.users = users
                /\ Users_get_user_by_id(r.users, id)[1].role = u[1].role
                /\ Users_get_user_by_id(r.users, id)[1].email = u[1].email

\* a request of the single operation replace active was refused as a bad
\* request without write
C29_Witness ==
    /\ resp.op = "patch_user" /\ resp.status = 400 /\ resp.scimType = "invalidValue"
    /\ resp.asked = <<"replace", T_active>>
    /\ resp.writes = <<>>
    /\ Users_get_user_by_id(users, resp.id)[1].email = <<"c">>

----------------------------------------------------------------------------
(* Properties of the derived schema *)

\* the attributes of that name in a cached schema definition
Advertised(entry, name) == SelectSeq(entry[1].attributes, LAMBDA a : a.name = name)

SubAttributeNames(attr) == {attr.subAttributes[i].name : i \in DOMAIN attr.subAttributes}

\* the attribute is there once, complex, with this multiValued and this sub-attribute
ComplexAttribute(entry, name, multi_valued, sub_name) ==
    LET found == Advertised(entry, name)
    IN  /\ Len(found) = 1
        /\ found[1].type = "complex"
        /\ found[1].multiValued = multi_valued
        /\ sub_name \in SubAttributeNames(found[1])

\* the optional nested object: name of User
NestedObjectIsComplex ==
    cache.User # <<>> => ComplexAttribute(cache.User, "name", FALSE, "familyName")

\* the optional arrays of objects: emails of User, members of Group
ArraysAreComplexMultiValued ==
    /\ cache.User # <<>> => ComplexAttribute(cache.User, "emails", TRUE, "value")
    /\ cache.Group # <<>> => ComplexAttribute(cache.Group, "members", TRUE, "value")

\* C30: in the derived schema an optional nested object (name of User, a
\* nullable wrapper around a reference) is advertised as complex, not
\* multiValued, with the sub-attributes of the nested object, familyName
\* among them; an optional array of objects (emails, members) is advertised
\* as complex and multiValued
C30_OptionalFieldsAreUnwrapped ==
    NestedObjectIsComplex /\ ArraysAreComplexMultiValued

\* what the code does: the reference inside anyOf is not resolved, and name
\* is advertised as a string without sub-attributes
NullableReferenceIsAdvertisedAsString ==
    cache.User # <<>> =>
        LET found == Advertised(cache.User, "name")
        IN  /\ Len(found) = 1
            /\ found[1].type = "string"
            /\ ~found[1].multiValued
            /\ found[1].subAttributes = NoAttributes

\* a reference that is not wrapped (meta) is resolved and advertised as complex
PlainReferenceIsComplex ==
    \A name \in ResourceTypeNames :
        cache[name] # <<>> => ComplexAttribute(cache[name], "meta", FALSE, "resourceType")

----------------------------------------------------------------------------
(* Specification of the creation of groups: POST /Groups, then GET and      *)
(* DELETE of what was created                                               *)

\* a user table with a user that is no admin listed first, then two admins
InitUsersTwoAdmins ==
    << [id |-> <<"3">>, email |-> <<"c">>, name |-> T_A, role |-> "user",
        created_at |-> 1, updated_at |-> 1],
       [id |-> <<"2">>, email |-> <<"b">>, name |-> T_A, role |-> "admin",
        created_at |-> 1, updated_at |-> 1],
       [id |-> <<"1">>, email |-> <<"a">>, name |-> T_A, role |-> "admin",
        created_at |-> 1, updated_at |-> 1] >>

CreationPayloads ==
    [ id : {NoId},
      displayName : {T_E, T_e, <<>>},
      members : {NoneList, << <<"1">> >>, << <<"1">>, <<"9">> >>} ]

\* the member update is reached only after the insert has worked
PostGroup ==
    \E p \in CreationPayloads, new_id \in GroupIds, ok_insert \in BOOLEAN, base \in BaseUrls :
      \E ok_update \in IF ok_insert THEN BOOLEAN ELSE {TRUE} :
        /\ Groups_get_group_by_id(groups, new_id) = <<>>
        /\ GApply(create_group(groups, users, p, new_id, ok_insert, ok_update, base))
        /\ UNCHANGED <<users, mu, mwire, mdb, aux>>

ReadGroup ==
    \E id \in GroupIds, base \in BaseUrls :
        /\ GApply(get_group_by_id(groups, users, id, base))
        /\ UNCHANGED <<users, mu, mwire, mdb, aux>>

DropGroup ==
    \E id \in GroupIds :
        /\ GApply(delete_group(groups, id, TRUE))
        /\ UNCHANGED <<users, mu, mwire, mdb, aux>>

CreationInit ==
    /\ users \in {InitUsers, InitUsersNoAdmin, InitUsersTwoAdmins}
    /\ groups \in {<<>>, <<InitGroups[2]>>}
    /\ resp = NoResponse
    /\ MapperIdle
    /\ AuxIdle

CreationNext == PostGroup \/ ReadGroup \/ DropGroup

SpecCreation == CreationInit /\ [][CreationNext]_vars

----------------------------------------------------------------------------
(* Properties of the creation of groups *)

\* the payloads POST /Groups accepts in this state, and the ids the store may give
Creatable(p, new_id) ==
    /\ Truthy(p.displayName)
    /\ ~NameExists(groups, p.displayName)
    /\ Groups_get_group_by_id(groups, new_id) = <<>>

HasAdmin == Users_get_users_by_role(users, "admin") # <<>>

\* C31: if POST /Groups has created the group and the member-assignment
\* write then fails, the created group stays in the store without rollback:
\* the next GET of that group returns it with its name and without members
C31_CreatedGroupStaysWithoutMembers ==
    \A p \in CreationPayloads, new_id \in GroupIds, base \in BaseUrls :
        (Creatable(p, new_id) /\ HasAdmin /\ p.members # NoneList /\ p.members # <<>>) =>
            LET r == create_group(groups, users, p, new_id, TRUE, FALSE, base)
                stored == Groups_get_group_by_id(r.groups, new_id)
                read == get_group_by_id(r.groups, users, new_id, base)
            IN  /\ Len(r.resp.writes) = 2
                /\ r.resp.writes[2] = Call("update_group_by_id", new_id, [user_ids |-> p.members])
                /\ Len(stored) = 1
                /\ stored[1].name = p.displayName /\ stored[1].user_ids = <<>>
                /\ SubSeq(r.groups, 1, Len(groups)) = groups
                /\ Len(r.groups) = Len(groups) + 1
                /\ read.resp.status = 200
                /\ read.resp.body[1].id = new_id
                /\ read.resp.body[1].displayName = p.displayName
                /\ read.resp.body[1].members = <<>>
                /\ read.groups = r.groups

\* a POST has issued the insert and the member update, the update has failed
\* and the store holds the new group without members
C31_Witness ==
    /\ resp.op = "create_group"
    /\ Len(resp.writes) = 2
    /\ resp.writes[2].call = "update_group_by_id"
    /\ resp.writes[2].fields.user_ids = << <<"1">>, <<"9">> >>
    /\ Groups_get_group_by_id(groups, resp.id) # <<>>
    /\ Groups_get_group_by_id(groups, resp.id)[1].user_ids = <<>>
    /\ Groups_get_group_by_id(groups, resp.id)[1].name = T_E

----------------------------------------------------------------------------
(* Properties of PUT /Groups/{id} and PUT /Users/{id} *)

\* the PUT requests on groups that pass the checks in this state
GroupPutAccepted(id, p) ==
    /\ Groups_get_group_by_id(groups, id) # <<>>
    /\ ~(Truthy(p.id) /\ p.id # id)
    /\ ~(p.displayName # Groups_get_group_by_id(groups, id)[1].name
         /\ NameTakenByOther(groups, p.displayName, id))

PutMemberLists == {<<>>, << <<"1">> >>, << <<"9">>, <<"1">> >>}

GroupPutPayloads ==
    [id : {NoId}, displayName : {T_E, T_e, T_n}, members : {NoneList} \cup PutMemberLists]

MembersSent(p) == IF p.members = NoneList THEN <<>> ELSE p.members

\* C32: PUT /Groups/{id} issues exactly one store update whose fields are
\* exactly name and user_ids of the payload; every other stored field of the
\* group (description, owner) is left as it was
C32_PutWritesNameAndMembersOnly ==
    \A base \in BaseUrls, id \in GroupIds, p \in GroupPutPayloads :
        GroupPutAccepted(id, p) =>
            LET r == replace_group(groups, users, id, p, TRUE, base)
                before == Groups_get_group_by_id(groups, id)[1]
                after == Groups_get_group_by_id(r.groups, id)[1]
            IN  /\ r.resp.status = 200
                /\ r.resp.writes = <<Call("update_group_by_id", id,
                                          [name |-> p.displayName, user_ids |-> MembersSent(p)])>>
                /\ after.description = before.description
                /\ after.user_id = before.user_id

\* what the code does: one update with name, user_ids and an empty
\* description; the owner, the id and the creation time stay
PutWritesEmptyDescription ==
    \A base \in BaseUrls, id \in GroupIds, p \in GroupPutPayloads :
        GroupPutAccepted(id, p) =>
            LET r == replace_group(groups, users, id, p, TRUE, base)
                before == Groups_get_group_by_id(groups, id)[1]
                after == Groups_get_group_by_id(r.groups, id)[1]
            IN  /\ r.resp.status = 200
                /\ r.resp.writes = <<Call("update_group_by_id", id,
                                          [name |-> p.displayName, user_ids |-> MembersSent(p),
                                           description |-> <<>>])>>
                /\ after = [before EXCEPT !.name = p.displayName,
                                          !.user_ids = MembersSent(p),
                                          !.description = <<>>]
                /\ \A k \in DOMAIN groups : groups[k].id # id => r.groups[k] = groups[k]

\* POST /Groups with this payload and this id of the new row, the store working
Posted(p, new_id, base) == create_group(groups, users, p, new_id, TRUE, TRUE, base)

\* the admin the store lists first
FirstListedAdmin(id) ==
    \E k \in DOMAIN users :
        /\ users[k].role = "admin" /\ users[k].id = id
        /\ \A j \in 1..(k - 1) : users[j].role # "admin"

\* C33: POST /Groups when the store holds no user with role admin fails with
\* InternalServerError (scimType internalServerError) and creates no group:
\* a payload that passes the displayName checks is answered with 500, the
\* others with their 400 or 409, and in no case is a store call issued; when
\* an admin exists, the created group is owned by the first admin the store
\* lists
C33_GroupOwnerIsFirstAdmin ==
    \A p \in CreationPayloads, new_id \in GroupIds, base \in BaseUrls :
        Groups_get_group_by_id(groups, new_id) = <<>> =>
            LET r == Posted(p, new_id, base)
                passes == Truthy(p.displayName) /\ ~NameExists(groups, p.displayName)
            IN  /\ ~HasAdmin =>
                      /\ r.groups = groups /\ r.resp.writes = <<>>
                      /\ r.resp.status \in {400, 409, 500}
                      /\ passes => /\ r.resp.status = 500
                                   /\ r.resp.scimType = "internalServerError"
                /\ (HasAdmin /\ passes) =>
                      /\ r.resp.status = 201
                      /\ Len(Groups_get_group_by_id(r.groups, new_id)) = 1
                      /\ FirstListedAdmin(Groups_get_group_by_id(r.groups, new_id)[1].user_id)
                      /\ FirstListedAdmin(r.resp.writes[1].fields.user_id)

\* a POST was refused with InternalServerError by a store without admin
C33_Witness ==
    /\ resp.op = "create_group" /\ resp.status = 500
    /\ resp.scimType = "internalServerError" /\ resp.writes = <<>>
    /\ ~HasAdmin
    /\ groups = <<>>

----------------------------------------------------------------------------
(* Specification of requests on ids the store does not know: GET, PUT,     *)
(* PATCH and DELETE of one user and one group, the DELETE making the id     *)
(* unknown to the requests that follow                                      *)

\* PATCH bodies: valid, malformed and unsupported operations, and none
UserPatchBodies ==
    { <<>>,
      <<PatchOp("replace", T_active, BoolValue(FALSE))>>,
      <<PatchOp("replace", T_userName, StrValue(<<"c">>))>>,
      <<PatchOp("replace", T_active, StrValue(T_A))>>,
      <<PatchOp("add", T_active, BoolValue(TRUE))>> }

GroupPatchBodies ==
    { <<>>,
      <<PatchOp("replace", T_displayName, StrValue(T_n))>>,
      <<PatchOp("replace", T_members, ListValue(MemberObjs(<< <<"9">> >>)))>>,
      <<PatchOp("add", T_members, ListValue(<<MemberNoValue>>))>>,
      <<PatchOp("remove", T_members, NullValue)>> }

PatchUserBody ==
    \E id \in UserIds, ops \in UserPatchBodies, base \in BaseUrls :
        /\ LET r == patch_user(users, id, ops, TRUE, base)
           IN  users' = r.users /\ resp' = [r.resp EXCEPT !.asked = Asked(ops)]
        /\ UNCHANGED <<groups, mu, mwire, mdb, aux>>

PatchGroupBody ==
    \E id \in GroupTargets, ops \in GroupPatchBodies, order \in SetOrders, base \in BaseUrls :
        /\ LET r == patch_group(groups, users, id, ops, order, TRUE, base)
           IN  groups' = r.groups /\ resp' = [r.resp EXCEPT !.asked = Asked(ops)]
        /\ UNCHANGED <<users, mu, mwire, mdb, aux>>

MissingInit ==
    /\ users = InitUsers
    /\ groups = <<InitGroups[2]>>
    /\ resp = NoResponse
    /\ MapperIdle
    /\ AuxIdle

MissingNext ==
    \/ GetUser \/ PutUser \/ PatchUserBody \/ DeleteUser
    \/ GetGroup \/ PutGroup \/ PatchGroupBody \/ DeleteGroup

SpecMissing == MissingInit /\ [][MissingNext]_vars

(***************************************************************************)
(* Properties of requests on ids the store does not know                   *)
(***************************************************************************)
UnknownUser(id) == Users_get_user_by_id(users, id) = <<>>
UnknownGroup(id) == Groups_get_group_by_id(groups, id) = <<>>

Projections == {None, T_userName}

\* the answers a request on one user id can get, whatever it sends
UserAnswers(id) ==
    {get_user_by_id_projected(users, id, None, None, base) : base \in BaseUrls}
    \cup {replace_user(users, id, p, ok, base) :
            p \in UserUpdatePayloads, ok \in BOOLEAN, base \in BaseUrls}
    \cup {patch_user(users, id, ops, ok, base) :
            ops \in UserPatchBodies, ok \in BOOLEAN, base \in BaseUrls}
    \cup {delete_user(users, id, ok) : ok \in BOOLEAN}

GroupAnswers(id) ==
    {get_group_by_id_projected(groups, users, id, None, None, base) : base \in BaseUrls}
    \cup {replace_group(groups, users, id, p, ok, base) :
            p \in GroupUpdatePayloads, ok \in BOOLEAN, base \in BaseUrls}
    \cup {patch_group(groups, users, id, ops, order, ok, base) :
            ops \in GroupPatchBodies, order \in SetOrders, ok \in BOOLEAN, base \in BaseUrls}
    \cup {delete_group(groups, id, ok) : ok \in BOOLEAN}

IsNotFound(r) == r.status = 404 /\ r.scimType = "notFound" /\ r.writes = <<>>

\* the body of a PUT names another id than the path
OtherIdInBody(r) == r.status = 400 /\ r.scimType = "invalidValue" /\ r.writes = <<>>

\* C34: GET, PUT, PATCH and DELETE on an id the store does not know are
\* answered NotFound (scimType notFound) and issue no mutating store call,
\* whatever the request body contains.
C34_UnknownIdIsNotFound ==
    /\ \A id \in UserIds : UnknownUser(id) =>
          \A r \in UserAnswers(id) : IsNotFound(r.resp) /\ r.users = users
    /\ \A id \in GroupIds : UnknownGroup(id) =>
          \A r \in GroupAnswers(id) : IsNotFound(r.resp) /\ r.groups = groups

\* C34 as the code has it: on an unknown id no request issues a store call
\* or changes the store; PATCH, DELETE, GET without projection and PUT are
\* answered NotFound, except a PUT whose body names an id other than the
\* path's, answered 400 invalidValue, and a GET asking for a projection,
\* answered 501, both before the lookup.
C34_UnknownIdIssuesNoWrite ==
    /\ \A id \in UserIds : UnknownUser(id) =>
          /\ \A r \in UserAnswers(id) :
                /\ r.users = users
                /\ IF r.resp.op = "replace_user"
                   THEN IsNotFound(r.resp) \/ OtherIdInBody(r.resp)
                   ELSE IsNotFound(r.resp)
          /\ \A p \in UserUpdatePayloads, ok \in BOOLEAN, base \in BaseUrls :
                OtherIdInBody(replace_user(users, id, p, ok, base).resp)
                    <=> (Truthy(p.id) /\ p.id # id)
          /\ \A a \in Projections, e \in Projections, base \in BaseUrls :
                (Truthy(a) \/ Truthy(e)) =>
                    LET r == get_user_by_id_projected(users, id, a, e, base)
                    IN  r.resp.status = 501 /\ r.resp.writes = <<>> /\ r.users = users
    /\ \A id \in GroupIds : UnknownGroup(id) =>
          /\ \A r \in GroupAnswers(id) :
                /\ r.groups = groups
                /\ IF r.resp.op = "replace_group"
                   THEN IsNotFound(r.resp) \/ OtherIdInBody(r.resp)
                   ELSE IsNotFound(r.resp)
          /\ \A p \in GroupUpdatePayloads, ok \in BOOLEAN, base \in BaseUrls :
                OtherIdInBody(replace_group(groups, users, id, p, ok, base).resp)
                    <=> (Truthy(p.id) /\ p.id # id)
          /\ \A a \in Projections, e \in Projections, base \in BaseUrls :
                (Truthy(a) \/ Truthy(e)) =>
                    LET r == get_group_by_id_projected(groups, users, id, a, e, base)
                    IN  r.resp.status = 501 /\ r.resp.writes = <<>> /\ r.groups = groups

\* a DELETE of a group the store does not hold was answered NotFound, and a
\* PUT naming another id was answered 400, the user it named being unknown
C34_Witness ==
    /\ resp.op = "delete_group"
    /\ IsNotFound(resp)
    /\ UnknownGroup(resp.id)
    /\ UnknownUser(<<"1">>)
    /\ OtherIdInBody(replace_user(users, <<"1">>,
           CHOOSE p \in UserUpdatePayloads : p.id = <<"2">>, TRUE, "https://idp/scim/v2").resp)

(***************************************************************************)
(* The role PUT /Users/{id} stores                                         *)
(***************************************************************************)
RolePayloads ==
    [ id : {NoId}, userName : {<<"a">>, <<"b">>}, name : NamePayloads,
      displayName : {None}, active : BOOLEAN ]

RoleAfterPut(id, p) ==
    Users_get_user_by_id(replace_user(users, id, p, TRUE, "https://idp/scim/v2").users, id)[1].role

PutAnswered(id, p) ==
    replace_user(users, id, p, TRUE, "https://idp/scim/v2").resp.status = 200

\* C35: PUT /Users/{id} changes the stored role only when activity changes:
\* active=true on a user whose role is not pending leaves the role as it is,
\* active=true on a pending user stores `user`, active=false stores `pending`.
C35_PutChangesRoleOnlyWithActivity ==
    \A id \in UserIds, p \in RolePayloads :
        (~UnknownUser(id) /\ PutAnswered(id, p)) =>
            LET role == Users_get_user_by_id(users, id)[1].role
            IN  RoleAfterPut(id, p) =
                    IF ~p.active THEN "pending"
                    ELSE IF role = "pending" THEN "user" ELSE role

\* what replace_user stores: `user` when active, `pending` when not,
\* whatever the role was
PutStoresRoleOfActive ==
    \A id \in UserIds, p \in RolePayloads :
        (~UnknownUser(id) /\ PutAnswered(id, p)) =>
            RoleAfterPut(id, p) = IF p.active THEN "user" ELSE "pending"

----------------------------------------------------------------------------
(* Specification of two requests handled concurrently over one store.      *)
(* The handlers hold no lock and open no transaction: each store call is   *)
(* one step, and the steps of the two requests interleave freely.          *)

Slots == {1, 2}

NoLocals == [group_model |-> <<>>, db_updates |-> EmptyDict, owner_user_id |-> NoId]

\* a request that has been received and whose handler is about to start
Received(op, id, body, start) ==
    [op |-> op, id |-> id, body |-> body, base |-> "https://idp/scim/v2",
     pc |-> start, local |-> NoLocals, resp |-> NoResponse]

RacedGroup == [InitGroups[2] EXCEPT !.user_ids = <<>>]

AddMember(id) == <<PatchOp("add", T_members, ListValue(MemberObjs(<<id>>)))>>

\* the requests slot i may carry; uuid4 hands a different id to each creation
RaceRequests(i) ==
    LET new_id == IF i = 1 THEN <<"3">> ELSE <<"4">>
    IN  { Received("create_group", new_id,
                   [id |-> NoId, displayName |-> T_n, members |-> NoneList], "check"),
          Received("create_group", new_id,
                   [id |-> NoId, displayName |-> T_n, members |-> << <<"1">> >>], "check"),
          Received("patch_group", <<"1">>,
                   <<PatchOp("replace", T_displayName, StrValue(T_n))>>, "lookup"),
          Received("patch_group", <<"1">>, AddMember(<<"1">>), "lookup"),
          Received("patch_group", <<"1">>, AddMember(<<"9">>), "lookup"),
          Received("create_user", new_id,
                   [id |-> NoId, userName |-> <<"b">>, name |-> <<SCIMName(None, T_A, <<"B">>)>>,
                    displayName |-> None, active |-> TRUE], "check") }

At(i, op, pc) == inflight[i].op = op /\ inflight[i].pc = pc

\* the handler of slot i goes on to its next store call
Goto(i, pc, local) ==
    /\ inflight' = [inflight EXCEPT ![i].pc = pc, ![i].local = local]
    /\ resp' = resp

\* the handler of slot i returns or raises: the request is answered
Answer(i, r) ==
    /\ inflight' = [inflight EXCEPT ![i].pc = "done", ![i].resp = r]
    /\ resp' = r

\* create_group: displayName is required, then Groups.get_groups() for the name
CreateGroupCheck(i) ==
    /\ At(i, "create_group", "check")
    /\ LET q == inflight[i]
       IN  IF ~Truthy(q.body.displayName)
           THEN Answer(i, SCIMBadRequestError("create_group", NoId, <<>>))
           ELSE IF NameExists(groups, q.body.displayName)
           THEN Answer(i, SCIMConflictError("create_group", NoId, <<>>))
           ELSE Goto(i, "admins", q.local)
    /\ UNCHANGED <<users, groups, mu, mwire, mdb, config, cache, computed>>

\* create_group: Users.get_users(role="admin") for the owner
CreateGroupAdmins(i) ==
    /\ At(i, "create_group", "admins")
    /\ LET q == inflight[i]
           admin_users == Users_get_users_by_role(users, "admin")
       IN  IF admin_users = <<>>
           THEN Answer(i, SCIMInternalServerError("create_group", NoId, <<>>))
           ELSE Goto(i, "insert", [q.local EXCEPT !.owner_user_id = FirstAdmin(admin_users)])
    /\ UNCHANGED <<users, groups, mu, mwire, mdb, config, cache, computed>>

\* create_group: Groups.insert_new_group
CreateGroupInsert(i) ==
    /\ At(i, "create_group", "insert")
    /\ LET q == inflight[i]
           group_data_for_db == scim_group_to_db_dict(q.body)
           ins == Groups_insert_new_group(groups, q.id, q.local.owner_user_id,
                      GroupForm(group_data_for_db.name, group_data_for_db.description), TRUE)
           insert_call == Call("insert_new_group", q.id,
                               [user_id |-> q.local.owner_user_id, name |-> group_data_for_db.name,
                                description |-> group_data_for_db.description])
       IN  /\ groups' = ins.groups
           /\ IF ins.ret = <<>>
              THEN Answer(i, SCIMInternalServerError("create_group", q.id, <<insert_call>>))
              ELSE IF group_data_for_db.user_ids = <<>>
              THEN Answer(i, Response("create_group", q.id, 201, "",
                                      GroupBody(users, ins.ret[1], q.base), NoList, <<insert_call>>))
              ELSE Goto(i, "members", [q.local EXCEPT !.group_model = ins.ret])
    /\ UNCHANGED <<users, mu, mwire, mdb, config, cache, computed>>

\* create_group: Groups.update_group_by_id with the members, a failure only logged
CreateGroupMembers(i) ==
    /\ At(i, "create_group", "members")
    /\ LET q == inflight[i]
           member_fields == [user_ids |-> scim_group_to_db_dict(q.body).user_ids]
           upd == Groups_update_group_by_id(groups, q.id, member_fields, TRUE)
           new_group_model == IF upd.ret # <<>> THEN upd.ret ELSE q.local.group_model
       IN  /\ groups' = upd.groups
           /\ Answer(i, Response("create_group", q.id, 201, "",
                                 GroupBody(users, new_group_model[1], q.base), NoList,
                                 <<Call("update_group_by_id", q.id, member_fields)>>))
    /\ UNCHANGED <<users, mu, mwire, mdb, config, cache, computed>>

\* patch_group: Groups.get_group_by_id
PatchGroupLookup(i) ==
    /\ At(i, "patch_group", "lookup")
    /\ LET q == inflight[i]
           group_model == Groups_get_group_by_id(groups, q.id)
       IN  IF group_model = <<>>
           THEN Answer(i, SCIMNotFoundError("patch_group", q.id, <<>>))
           ELSE Goto(i, "loop", [q.local EXCEPT !.group_model = group_model])
    /\ UNCHANGED <<users, groups, mu, mwire, mdb, config, cache, computed>>

\* patch_group: the loop over the operations, on the group model looked up
\* before; a change of displayName reads Groups.get_groups() now
PatchGroupLoop(i) ==
    /\ At(i, "patch_group", "loop")
    /\ \E order \in SetOrders :
         LET q == inflight[i]
             group_model == q.local.group_model[1]
             loop == patch_group_loop(groups, group_model, q.body, 1,
                         Acc("", EmptyDict, Range(group_model.user_ids), FALSE))
             db_updates == IF loop.members_changed
                           THEN [user_ids |-> ListOfSet(loop.current_user_ids, order)]
                                    @@ loop.db_updates
                           ELSE loop.db_updates
         IN  IF loop.error # ""
             THEN Answer(i, GroupError(loop.error, "patch_group", q.id, <<>>))
             ELSE IF DOMAIN db_updates = {}
             THEN Goto(i, "refetch", q.local)
             ELSE Goto(i, "update", [q.local EXCEPT !.db_updates = db_updates])
    /\ UNCHANGED <<users, groups, mu, mwire, mdb, config, cache, computed>>

\* patch_group: Groups.update_group_by_id with db_updates
PatchGroupUpdate(i) ==
    /\ At(i, "patch_group", "update")
    /\ LET q == inflight[i]
           upd == Groups_update_group_by_id(groups, q.id, q.local.db_updates, TRUE)
       IN  /\ groups' = upd.groups
           /\ IF upd.ret = <<>>
              THEN Answer(i, SCIMInternalServerError("patch_group", q.id,
                                 <<Call("update_group_by_id", q.id, q.local.db_updates)>>))
              ELSE Goto(i, "refetch", q.local)
    /\ UNCHANGED <<users, mu, mwire, mdb, config, cache, computed>>

\* patch_group: the group is fetched again and answered with its members
PatchGroupRefetch(i) ==
    /\ At(i, "patch_group", "refetch")
    /\ LET q == inflight[i]
           final_group_model == Groups_get_group_by_id(groups, q.id)
           writes == IF DOMAIN q.local.db_updates = {} THEN <<>>
                     ELSE <<Call("update_group_by_id", q.id, q.local.db_updates)>>
       IN  IF final_group_model = <<>>
           THEN Answer(i, SCIMInternalServerError("patch_group", q.id, writes))
           ELSE Answer(i, Response("patch_group", q.id, 200, "",
                                   GroupBody(users, final_group_model[1], q.base), NoList, writes))
    /\ UNCHANGED <<users, groups, mu, mwire, mdb, config, cache, computed>>

\* the store refuses the insert of an email it already holds
StoreAcceptsEmail(us, email) == Users_get_user_by_email(us, email) = <<>>

\* create_user: userName is required, then Users.get_user_by_email
CreateUserCheck(i) ==
    /\ At(i, "create_user", "check")
    /\ LET q == inflight[i]
       IN  IF ~Truthy(q.body.userName)
           THEN Answer(i, SCIMBadRequestError("create_user", NoId, <<>>))
           ELSE IF EmailExists(users, q.body.userName)
           THEN Answer(i, SCIMConflictError("create_user", NoId, <<>>))
           ELSE Goto(i, "insert", q.local)
    /\ UNCHANGED <<users, groups, mu, mwire, mdb, config, cache, computed>>

\* create_user: Auths.insert_new_auth; None and an exception both end in
\* SCIMInternalServerError
CreateUserInsert(i) ==
    /\ At(i, "create_user", "insert")
    /\ LET q == inflight[i]
           user_data_for_db == scim_user_to_db_dict(q.body)
           ins == Auths_insert_new_auth(users, q.id, user_data_for_db.email,
                      user_data_for_db.name, user_data_for_db.role,
                      StoreAcceptsEmail(users, user_data_for_db.email))
       IN  /\ users' = ins.users
           /\ IF ins.ret = <<>>
              THEN Answer(i, SCIMInternalServerError("create_user", q.id,
                                 <<Call("insert_new_auth", q.id, user_data_for_db)>>))
              ELSE Goto(i, "fetch", q.local)
    /\ UNCHANGED <<groups, mu, mwire, mdb, config, cache, computed>>

\* create_user: Users.get_user_by_id of the new user, answered 201
CreateUserFetch(i) ==
    /\ At(i, "create_user", "fetch")
    /\ LET q == inflight[i]
           new_user_model == Users_get_user_by_id(users, q.id)
           writes == <<Call("insert_new_auth", q.id, scim_user_to_db_dict(q.body))>>
       IN  IF new_user_model = <<>>
           THEN Answer(i, SCIMInternalServerError("create_user", q.id, writes))
           ELSE Answer(i, Response("create_user", q.id, 201, "",
                                   <<user_to_scim_user(new_user_model[1], q.base)>>, NoList, writes))
    /\ UNCHANGED <<users, groups, mu, mwire, mdb, config, cache, computed>>

RacesInit ==
    /\ users = InitUsers
    /\ groups = <<RacedGroup>>
    /\ resp = NoResponse
    /\ MapperIdle
    /\ config = Configured
    /\ cache = EmptyCache /\ computed = [User |-> 0, Group |-> 0]
    /\ inflight \in {<<a, b>> : a \in RaceRequests(1), b \in RaceRequests(2)}

RacesNext ==
    \E i \in Slots :
        \/ CreateGroupCheck(i) \/ CreateGroupAdmins(i)
        \/ CreateGroupInsert(i) \/ CreateGroupMembers(i)
        \/ PatchGroupLookup(i) \/ PatchGroupLoop(i)
        \/ PatchGroupUpdate(i) \/ PatchGroupRefetch(i)
        \/ CreateUserCheck(i) \/ CreateUserInsert(i) \/ CreateUserFetch(i)

SpecRaces == RacesInit /\ [][RacesNext]_vars

(***************************************************************************)
(* Properties of concurrent requests over one store                        *)
(***************************************************************************)
Succeeded(q) == q.pc = "done" /\ q.resp.status \in {200, 201}

BothAnswered == \A i \in Slots : inflight[i].pc = "done"

Renames(q) == q.op = "patch_group" /\ Lower(q.body[1].path) = T_displayname

\* the displayName a request gives to a group, None when it gives none
TargetName(q) ==
    IF q.op = "create_group" THEN q.body.displayName
    ELSE IF Renames(q) THEN PyStr(q.body[1].value)
    ELSE None

\* two POST /Groups, or a POST and a PATCH of displayName, with one name
SameNameTargeted ==
    /\ inflight # NoRequests
    /\ \E i \in Slots : inflight[i].op = "create_group"
    /\ TargetName(inflight[1]) # None
    /\ TargetName(inflight[1]) = TargetName(inflight[2])

NamesUnique ==
    \A j \in DOMAIN groups, k \in DOMAIN groups : j # k => groups[j].name # groups[k].name

\* C36: under any interleaving of the store calls of two concurrent group
\* requests that target the same displayName, at most one succeeds and the
\* store never holds two groups with the same name.
C36_ConcurrentNamesStayUnique ==
    SameNameTargeted =>
        /\ NamesUnique
        /\ ~(Succeeded(inflight[1]) /\ Succeeded(inflight[2]))

\* as long as one of the two requests has not started, names stay unique
SerialNamesStayUnique ==
    (SameNameTargeted /\ \E i \in Slots : inflight[i].pc \in {"check", "lookup"})
        => NamesUnique

SameUserNamePosted ==
    /\ inflight # NoRequests
    /\ \A i \in Slots : inflight[i].op = "create_user"
    /\ inflight[1].body.userName = inflight[2].body.userName

\* C37: under any interleaving of two concurrent POST /Users with the same
\* userName, over a store that refuses the second insert of an email, one
\* request creates the user and the other is answered Conflict
\* (uniqueness), never InternalServerError.
C37_ConcurrentCreateIsConflict ==
    SameUserNamePosted =>
        /\ \A i \in Slots : inflight[i].resp.status # 500
        /\ BothAnswered =>
              \E i \in Slots, j \in Slots :
                  /\ i # j
                  /\ inflight[i].resp.status = 201
                  /\ inflight[j].resp.status = 409
                  /\ inflight[j].resp.scimType = "uniqueness"

\* the store keeps the email unique: the refused insert created nothing
EmailStaysUnique ==
    \A j \in DOMAIN users, k \in DOMAIN users : j # k => users[j].email # users[k].email

\* the member a PATCH adds, when it adds one
Added(q) == q.body[1].value.v[1].value

DifferentMembersAdded ==
    /\ inflight # NoRequests
    /\ \A i \in Slots : inflight[i].op = "patch_group" /\ ~Renames(inflight[i])
    /\ inflight[1].id = inflight[2].id
    /\ Added(inflight[1]) # Added(inflight[2])

\* C38: two concurrent PATCH requests on one group, each adding a different
\* member: under any interleaving of their store reads and writes both
\* succeed and the stored member set holds both ids.
C38_ConcurrentAddsAreBothKept ==
    (DifferentMembersAdded /\ BothAnswered) =>
        /\ \A i \in Slots : inflight[i].resp.status = 200
        /\ \A i \in Slots :
              Added(inflight[i]) \in
                  Range(Groups_get_group_by_id(groups, inflight[i].id)[1].user_ids)

\* both requests are answered 200, whatever the interleaving
ConcurrentAddsBothSucceed ==
    (DifferentMembersAdded /\ BothAnswered) =>
        \A i \in Slots : inflight[i].resp.status = 200

----------------------------------------------------------------------------
(* Specification of two schema requests handled concurrently in one        *)
(* process.  The two cache entries are module globals; the handlers set    *)
(* meta.location on the cached definition itself and return that object,   *)
(* from which the response is serialised after the handler has returned.   *)

\* a schema request that has been received: the resource types it serves
SchemaRequest(op, schema_id, names, base) ==
    [op |-> op, id |-> schema_id, names |-> names, todo |-> names, base |-> base,
     pc |-> "fill", resp |-> NoResponse]

RaceBaseUrls == {"https://idp/scim/v2", "https://other/scim/v2"}

SchemaRaceRequests ==
    UNION { { SchemaRequest("get_schemas", "", <<"User", "Group">>, base),
              SchemaRequest("get_schema_by_id", USER_SCHEMA_URN, <<"User">>, base),
              SchemaRequest("get_schema_by_id", GROUP_SCHEMA_URN, <<"Group">>, base) }
            : base \in RaceBaseUrls }

\* if not _..._SCIM_SCHEMA_CACHE: _..._SCIM_SCHEMA_CACHE = pydantic_schema_to_scim_schema(...)
FillCache(i) ==
    /\ inflight[i].pc = "fill"
    /\ LET q == inflight[i]
           name == Head(q.todo)
       IN  /\ cache' = IF CacheMiss(cache[name])
                       THEN [cache EXCEPT ![name] =
                               <<pydantic_schema_to_scim_schema(UrnOf(name), name, q.base)>>]
                       ELSE cache
           /\ computed' = [computed EXCEPT ![name] = Computed(cache[name], @)]
    /\ inflight' = [inflight EXCEPT ![i].pc = "location"]
    /\ UNCHANGED <<users, groups, resp, mu, mwire, mdb, config>>

\* _..._SCIM_SCHEMA_CACHE.meta.location = HttpUrl(f"{base_scim_url}/Schemas/{URN}")
SetLocation(i) ==
    /\ inflight[i].pc = "location"
    /\ LET q == inflight[i]
           name == Head(q.todo)
       IN  /\ cache' = [cache EXCEPT ![name] =
                          <<[@[1] EXCEPT !.meta.location =
                                Location(q.base, "Schemas", UrnOf(name))]>>]
           /\ inflight' = [inflight EXCEPT ![i].todo = Tail(q.todo),
                                           ![i].pc = IF Tail(q.todo) = <<>>
                                                     THEN "respond" ELSE "fill"]
    /\ UNCHANGED <<users, groups, resp, mu, mwire, mdb, config, computed>>

\* the handler lists or returns the cached objects themselves; the response
\* is what these objects hold when it is serialised
SerializeResponse(i) ==
    /\ inflight[i].pc = "respond"
    /\ LET q == inflight[i]
           resources == IF Len(q.names) = 2 THEN cache[q.names[1]] \o cache[q.names[2]]
                        ELSE cache[q.names[1]]
           r == IF q.op = "get_schemas"
                THEN Response("get_schemas", NoId, 200, "", resources,
                              <<ListPage(Len(resources), 1, resources)>>, <<>>)
                ELSE Response("get_schema_by_id", q.id, 200, "", resources, NoList, <<>>)
       IN  Answer(i, r)
    /\ UNCHANGED <<users, groups, mu, mwire, mdb, config, cache, computed>>

CacheRacesInit ==
    /\ users = InitUsers /\ groups = <<>>
    /\ resp = NoResponse
    /\ MapperIdle
    /\ config = Configured
    /\ cache = EmptyCache /\ computed = [User |-> 0, Group |-> 0]
    /\ inflight \in {<<a, b>> : a \in SchemaRaceRequests, b \in SchemaRaceRequests}

CacheRacesNext ==
    \E i \in Slots : FillCache(i) \/ SetLocation(i) \/ SerializeResponse(i)

SpecCacheRaces == CacheRacesInit /\ [][CacheRacesNext]_vars

(***************************************************************************)
(* Properties of concurrent schema requests                                *)
(***************************************************************************)
\* id, name and attributes of a cached definition do not depend on the
\* request that computed it
CacheContentsIdentical ==
    \A name \in ResourceTypeNames :
        cache[name] # <<>> =>
            \A base \in RaceBaseUrls :
                LET own == pydantic_schema_to_scim_schema(UrnOf(name), name, base)
                IN  /\ cache[name][1].id = own.id
                    /\ cache[name][1].name = own.name
                    /\ cache[name][1].attributes = own.attributes

\* every definition of the response carries the location of the request's base URL
OwnLocations(q) ==
    \A k \in DOMAIN q.resp.body :
        q.resp.body[k].meta.location = Location(q.base, "Schemas", q.resp.body[k].id)

SameBaseResponsesCarryOwnLocation ==
    (inflight # NoRequests /\ inflight[1].base = inflight[2].base) =>
        \A i \in Slots : inflight[i].pc = "done" => OwnLocations(inflight[i])

============================================================================
